---- MODULE Spec2Model ----
(***************************************************************************)
(* Model of the local-memory stop hook                                     *)
(* (plugins/local-memory/hooks/local-memory_stop.py and                    *)
(* plugins/local-memory/shared/settings.py): the incremental session       *)
(* completion detector, the directory aggregator, the dedup / cooldown     *)
(* policy and the session state store.                                     *)
(*                                                                         *)
(* Paths are sequences of path segments; the directory "." is <<>>.       *)
(* Time is counted in minutes.                                             *)
(***************************************************************************)
EXTENDS Integers, Sequences, FiniteSets, TLC

VARIABLES
    log,        \* log[s]: the transcript of session s, a sequence of lines
    file,       \* file[s]: the state file of session s in .claude/local-memory-state
    now,        \* the wall clock, in minutes
    out,        \* what the last run of main printed and how it exited
    hist,       \* history of the notifications of each session (observation only)
    judge_in,   \* arguments of the completion judge (judge specification)
    judge_out,  \* its result
    group_in,   \* arguments of group_files_by_directory (aggregator specification)
    group_out,  \* its result
    run,        \* the run of main in progress: where it is and what it holds
    lock,       \* who holds the lock file of the state file
    procs,      \* procs[p]: a run of main as one of several concurrent processes
    lk,         \* the lock file of one path and the callers of file_lock
    scan_in,    \* arguments of scan_transcript (scan specification)
    scan_out,   \* its result
    mig,        \* the two layouts of one state file and a call of
                \* get_session_state_path (migration specification)
    sw,         \* the files of .claude and a call of cleanup_stale_files
                \* (sweep specification)
    incr,       \* a growing transcript, the state file of its session and
                \* the lines its checks have tested (incremental specification)
    ld,         \* the text of a state file and what load_session_state
                \* returns for it (load specification)
    sc,         \* the summary cache files of one directory and the calls of
                \* _save_summary_cache and _load_summary_cache (cache specification)
    mw          \* the transcript and the state file of one session of the md-watch
                \* stop hook, and what its checks listed (md-watch specification)

vars == <<log, file, now, out, hist, judge_in, judge_out, group_in, group_out,
          run, lock, procs, lk, scan_in, scan_out, mig, sw, incr, ld, sc, mw>>

(***************************************************************************)
(* Bounds of the model.                                                    *)
(***************************************************************************)
MaxAppend == 4       \* lines appended to a transcript
MaxAppendProject == 1   \* the same, with two sessions
MaxNow == 30         \* the clock stops here
TickMinutes == 15    \* minutes between two clock readings
MaxTotal == 18       \* largest total_entries given to the judge
MaxFiles == 4        \* longest file list given to the aggregator
MaxThreshold == 3    \* largest threshold given to the aggregator
MaxPolls == 3        \* polls of the lock file before the lock times out
MaxAppendMain == 1   \* lines appended between the runs of main taken step by step
MaxNotes == 3        \* the notifications of one directory are counted up to here
MaxAppendRace == 4   \* lines appended while two runs of main race
MaxIncrLines == 4    \* longest transcript of the incremental specification
MaxIncrChecks == 3   \* most checks of it
SweepSlack == 1      \* minutes by which a swept file is older than the age
MaxMigLine == 3      \* largest last_processed_line of a state file to migrate
MaxScanLines == 3    \* longest transcript given to scan_transcript

(***************************************************************************)
(* Program constants.                                                      *)
(***************************************************************************)
DEFAULT_THRESHOLD == 2
DEFAULT_COOLDOWN_MINUTES == 30
CommitQuiet == 3     \* has_commit and entries_since_last_edit > 3
SignalQuiet == 5     \* the other four signals: entries_since_last_edit > 5
GapQuiet == 15       \* no signal: entries_since_last_edit > 15
MaxAgeDays == 7      \* cleanup_stale_files(cwd, max_age_days=7)
MinutesPerDay == 1440

DEFAULT_EXCLUDED_DIRS ==
    { "node_modules", "vendor", "packages", ".git", ".svn", ".hg", ".bzr",
      "dist", "build", "out", "target", "bin", "obj",
      "test", "tests", "spec", "specs", "__tests__", "__snapshots__",
      "coverage", ".next", ".nuxt", ".angular", "__pycache__",
      "temp", "tmp", "cache" }

_TARGET_TOOLS == {"Edit", "Write", "NotebookEdit"}

\* tool calls of one message are numbered below ItemStride
ItemStride == 10

Sessions == {"A", "B"}   \* two transcripts of the same project

Signals == {"commit", "test", "build", "task", "phrase"}

(***************************************************************************)
(* Sequence helpers.                                                       *)
(***************************************************************************)
Range(f) == { f[i] : i \in DOMAIN f }

RECURSIVE SumOver(_, _)
SumOver(S, f) ==
    IF S = {} THEN 0
    ELSE LET x == CHOOSE y \in S : TRUE IN f[x] + SumOver(S \ {x}, f)

(***************************************************************************)
(* Paths.  Path(p).parent: the path without its last segment; the parent   *)
(* of "." is ".".                                                          *)
(***************************************************************************)
Parent(p) == IF Len(p) = 0 THEN p ELSE SubSeq(p, 1, Len(p) - 1)

(***************************************************************************)
(* A transcript line, as far as scan_transcript looks at it:               *)
(*   sig    the completion signal categories one of whose patterns        *)
(*          matches the raw line                                           *)
(*   edit   an _ACTIVE_CODING_PATTERNS match ("name": "Edit" ...)         *)
(*   tool   "none"    the raw line has no "tool_use" marker                *)
(*          "badjson" marker present, the line is not valid JSON           *)
(*          "noenv"   valid JSON, neither envelope holds a content list    *)
(*          "raise"   valid JSON whose shape makes the extraction raise    *)
(*                    (for instance {"data": 5})                           *)
(*          "ok"      an envelope with a content list                      *)
(*   items  the tool_use items of the content list: [name, path], path     *)
(*          being [abs, under, prefix, segs]: an absolute path or not;     *)
(*          a path that lies under the project root or not; a string       *)
(*          that starts with the string of the project root or not; and    *)
(*          the segments of the path once the characters of the root and   *)
(*          the separators after them are taken away, when prefix, or of   *)
(*          the whole path otherwise                                       *)
(***************************************************************************)
RawPath(abs, under, segs) ==
    [abs |-> abs, under |-> under, prefix |-> abs /\ under, segs |-> segs]

\* an absolute path in a sibling of the project root whose name starts with
\* the name of the root: /proj-old/src/a.py for the root /proj
SiblingPath(segs) ==
    [abs |-> TRUE, under |-> FALSE, prefix |-> TRUE, segs |-> segs]
Item(name, path) == [name |-> name, path |-> path]
Line(sig, edit, tool, items) ==
    [sig |-> sig, edit |-> edit, tool |-> tool, items |-> items]

(***************************************************************************)
(* Path normalisation of one tool_use item (lines 380-388): a path whose    *)
(* string starts with the string of the project root loses that many       *)
(* characters, any other absolute path is skipped, a relative path is      *)
(* kept.  Returns a set with the normalised path, or the empty set when    *)
(* the item is skipped.                                                    *)
(***************************************************************************)
NormalizeItem(item) ==
    IF item.name \notin _TARGET_TOOLS THEN {}
    ELSE IF Len(item.path.segs) = 0 THEN {}            \* no file_path
    ELSE IF item.path.abs /\ ~item.path.prefix THEN {} \* lines 384-388
    ELSE {item.path.segs}

RECURSIVE ExtractItemsAll(_, _, _)
\* an extraction without seen_paths: every occurrence is appended
ExtractItemsAll(items, i, paths) ==
    IF i > Len(items) THEN paths
    ELSE LET n == NormalizeItem(items[i])
         IN ExtractItemsAll(items, i + 1,
                IF n = {} THEN paths
                ELSE Append(paths, CHOOSE p \in n : TRUE))

RECURSIVE ExtractItems(_, _, _)
\* the loop over content (lines 362-392): first occurrence wins
ExtractItems(items, i, paths) ==
    IF i > Len(items) THEN paths
    ELSE LET n == NormalizeItem(items[i])
             add == { p \in n : p \notin Range(paths) }
         IN ExtractItems(items, i + 1,
                IF add = {} THEN paths
                ELSE Append(paths, CHOOSE p \in add : TRUE))

(***************************************************************************)
(* The session state and its completion cache (load_session_state).        *)
(***************************************************************************)
None == -1   \* last_run_time of a state that was never saved

default_completion_cache ==
    [ last_scanned_line |-> 0,
      has_commit |-> FALSE, has_test_success |-> FALSE,
      has_build_success |-> FALSE, has_task_complete |-> FALSE,
      has_completion_phrase |-> FALSE,
      last_edit_index |-> -1 ]

default_state ==
    [ last_processed_line |-> 0,
      suggested_directories |-> {},
      last_run_time |-> None,
      generation_times |-> [d \in {} |-> 0],
      completion_cache |-> default_completion_cache ]

(***************************************************************************)
(* scan_transcript (lines 248-450).  log is the transcript, readN the      *)
(* number of lines the file iteration yields before it raises (Len(log)    *)
(* when the whole file is read, 0 when it cannot be opened).               *)
(***************************************************************************)
\* lines 267-283: the signals start from the cache only when the cache has
\* scanned at least one line
ScanStart(start_line, cached) ==
    LET use == cached.last_scanned_line > 0
    IN [ completion_start_line |-> IF use THEN cached.last_scanned_line ELSE 0,
         has_commit |-> use /\ cached.has_commit,
         has_test_success |-> use /\ cached.has_test_success,
         has_build_success |-> use /\ cached.has_build_success,
         has_task_complete |-> use /\ cached.has_task_complete,
         has_completion_phrase |-> use /\ cached.has_completion_phrase,
         last_edit_index |-> IF use THEN cached.last_edit_index ELSE -1,
         file_paths |-> << >>,
         total_entries |-> 0,
         last_line |-> start_line,
         raised |-> FALSE ]

\* lines 298-329: phase 1 on one line
Phase1(acc, line, line_num) ==
    IF line_num >= acc.completion_start_line
    THEN [acc EXCEPT
            !.has_commit = @ \/ "commit" \in line.sig,
            !.has_test_success = @ \/ "test" \in line.sig,
            !.has_build_success = @ \/ "build" \in line.sig,
            !.has_task_complete = @ \/ "task" \in line.sig,
            !.has_completion_phrase = @ \/ "phrase" \in line.sig,
            !.last_edit_index = IF line.edit THEN line_num ELSE @]
    ELSE acc

\* lines 331-392: phase 2 on one line
Phase2(acc, line, line_num, start_line) ==
    IF line_num >= start_line
    THEN LET a == [acc EXCEPT !.last_line = line_num + 1]
         IN CASE line.tool = "ok" ->
                    [a EXCEPT !.file_paths = ExtractItems(line.items, 1, @)]
              [] line.tool = "raise" -> [a EXCEPT !.raised = TRUE]
              [] OTHER -> a        \* no marker, bad JSON, no envelope: skipped
    ELSE acc

\* one iteration of the loop over the file (lines 295-392)
ScanLine(acc, line, line_num, start_line) ==
    Phase2(Phase1([acc EXCEPT !.total_entries = line_num + 1], line, line_num),
           line, line_num, start_line)

RECURSIVE ScanLoop(_, _, _, _, _)
ScanLoop(acc, lines, line_num, readN, start_line) ==
    IF line_num >= readN \/ acc.raised THEN acc
    ELSE ScanLoop(ScanLine(acc, lines[line_num + 1], line_num, start_line),
                  lines, line_num + 1, readN, start_line)

\* the judge with the commit rule waiting as long as the other signals
JudgeSlowCommit(has_commit, has_test_success, has_build_success, has_task_complete, has_completion_phrase, last_edit_index, total_entries) ==
    LET quiet == total_entries - last_edit_index
    IN  IF has_commit /\ quiet > SignalQuiet
        THEN [is_complete |-> TRUE, reason |-> "commit"]
        ELSE IF has_test_success /\ quiet > SignalQuiet
        THEN [is_complete |-> TRUE, reason |-> "test"]
        ELSE IF has_build_success /\ quiet > SignalQuiet
        THEN [is_complete |-> TRUE, reason |-> "build"]
        ELSE IF has_task_complete /\ quiet > SignalQuiet
        THEN [is_complete |-> TRUE, reason |-> "task"]
        ELSE IF has_completion_phrase /\ quiet > SignalQuiet
        THEN [is_complete |-> TRUE, reason |-> "phrase"]
        ELSE IF last_edit_index = -1
        THEN [is_complete |-> FALSE, reason |-> "no_modifications"]
        ELSE IF quiet > GapQuiet
        THEN [is_complete |-> TRUE, reason |-> "gap"]
        ELSE [is_complete |-> FALSE, reason |-> "no_signals"]

\* the judge with a commit rule that fires one line earlier
JudgeEagerCommit(has_commit, has_test_success, has_build_success, has_task_complete, has_completion_phrase, last_edit_index, total_entries) ==
    LET quiet == total_entries - last_edit_index
    IN  IF has_commit /\ quiet >= CommitQuiet
        THEN [is_complete |-> TRUE, reason |-> "commit"]
        ELSE JudgeSlowCommit(FALSE, has_test_success, has_build_success,
                             has_task_complete, has_completion_phrase,
                             last_edit_index, total_entries)

(***************************************************************************)
(* The completion judge (lines 408-433).  The reason is a tag for the      *)
(* message the code builds.                                                *)
(***************************************************************************)
Judge(has_commit, has_test_success, has_build_success, has_task_complete, has_completion_phrase, last_edit_index, total_entries) ==
    LET entries_since_last_edit == total_entries - last_edit_index
    IN  IF has_commit /\ entries_since_last_edit > CommitQuiet
        THEN [is_complete |-> TRUE, reason |-> "commit"]
        ELSE IF has_test_success /\ entries_since_last_edit > SignalQuiet
        THEN [is_complete |-> TRUE, reason |-> "test"]
        ELSE IF has_build_success /\ entries_since_last_edit > SignalQuiet
        THEN [is_complete |-> TRUE, reason |-> "build"]
        ELSE IF has_task_complete /\ entries_since_last_edit > SignalQuiet
        THEN [is_complete |-> TRUE, reason |-> "task"]
        ELSE IF has_completion_phrase /\ entries_since_last_edit > SignalQuiet
        THEN [is_complete |-> TRUE, reason |-> "phrase"]
        ELSE IF last_edit_index = -1
        THEN [is_complete |-> FALSE, reason |-> "no_modifications"]
        ELSE IF entries_since_last_edit > GapQuiet
        THEN [is_complete |-> TRUE, reason |-> "gap"]
        ELSE [is_complete |-> FALSE, reason |-> "no_signals"]

\* a cache that keeps the line it started from
BuildCompletionCacheStale(acc) ==
    [ last_scanned_line |-> acc.completion_start_line,
      has_commit |-> acc.has_commit,
      has_test_success |-> acc.has_test_success,
      has_build_success |-> acc.has_build_success,
      has_task_complete |-> acc.has_task_complete,
      has_completion_phrase |-> acc.has_completion_phrase,
      last_edit_index |-> acc.last_edit_index ]

\* lines 397-406
BuildCompletionCache(acc) ==
    [ last_scanned_line |-> acc.total_entries,
      has_commit |-> acc.has_commit,
      has_test_success |-> acc.has_test_success,
      has_build_success |-> acc.has_build_success,
      has_task_complete |-> acc.has_task_complete,
      has_completion_phrase |-> acc.has_completion_phrase,
      last_edit_index |-> acc.last_edit_index ]

scan_transcript(lines, readN, start_line, cached) ==
    LET acc == ScanLoop(ScanStart(start_line, cached), lines, 0, readN, start_line)
    IN [ completion |->
            Judge(acc.has_commit, acc.has_test_success, acc.has_build_success,
                  acc.has_task_complete, acc.has_completion_phrase,
                  acc.last_edit_index, acc.total_entries),
         file_paths |-> acc.file_paths,
         last_line |-> acc.last_line,
         completion_cache |-> BuildCompletionCache(acc) ]

(***************************************************************************)
(* group_files_by_directory (lines 499-568).                               *)
(***************************************************************************)
\* lines 518-523: some segment of the directory is an excluded name
\* the pairs (token, segment) of the model in which the token is a part of
\* the segment without being the segment
PartOfSegment == { <<"tests", "mytests">> }

\* an exclusion that matches a token anywhere inside a segment
IsExcludedBySubstring(dir_path, excluded_dirs) ==
    \E i \in 1..Len(dir_path) :
        \/ dir_path[i] \in excluded_dirs
        \/ \E token \in excluded_dirs : <<token, dir_path[i]>> \in PartOfSegment

IsExcludedDir(dir_path, excluded_dirs) ==
    \E i \in 1..Len(dir_path) : dir_path[i] \in excluded_dirs

\* lines 511-526: files per immediate parent directory
DirCounts(file_paths, excluded_dirs) ==
    LET kept == { i \in 1..Len(file_paths) :
                    ~IsExcludedDir(Parent(file_paths[i]), excluded_dirs) }
        dirs == { Parent(file_paths[i]) : i \in kept }
    IN [ d \in dirs |-> Cardinality({ i \in kept : Parent(file_paths[i]) = d }) ]

\* lines 531-538: the directories below the threshold
BelowThresholdDirs(dir_counts, threshold) ==
    { d \in DOMAIN dir_counts : dir_counts[d] < threshold }

\* an aggregation of two levels: a directory below the threshold gives its
\* parent its own count and the counts its own children gave it
ParentOverflowDeep(dir_counts, threshold) ==
    LET below == BelowThresholdDirs(dir_counts, threshold)
        with_children ==
            [ d \in below |->
                dir_counts[d]
                + SumOver({ e \in below : Parent(e) = d /\ e # d }, dir_counts) ]
    IN [ p \in { Parent(d) : d \in below } |->
            SumOver({ d \in below : Parent(d) = p }, with_children) ]

\* lines 531-538: what the directories below the threshold give their parent
ParentOverflow(dir_counts, threshold) ==
    LET below == BelowThresholdDirs(dir_counts, threshold)
    IN [ p \in { Parent(d) : d \in below } |->
            SumOver({ d \in below : Parent(d) = p }, dir_counts) ]

\* a combined count that leaves out the direct count of the parent
DirectCountDropped(dir_counts, parent) == 0

\* line 547: dir_counts.get(parent, 0)
DirectCount(dir_counts, parent) ==
    IF parent \in DOMAIN dir_counts THEN dir_counts[parent] ELSE 0

\* lines 546-561: the parents that reach the threshold with their overflow
AggregatedParents(dir_counts, threshold) ==
    LET parent_overflow == ParentOverflow(dir_counts, threshold)
    IN { p \in DOMAIN parent_overflow :
            DirectCount(dir_counts, p) + parent_overflow[p] >= threshold }

group_files_by_directory(file_paths, excluded_dirs, threshold) ==
    LET dir_counts == DirCounts(file_paths, excluded_dirs)
        below == BelowThresholdDirs(dir_counts, threshold)
        parent_overflow == ParentOverflow(dir_counts, threshold)
        parents == AggregatedParents(dir_counts, threshold)
        aggregated_children == { d \in below : Parent(d) \in parents }
        kept == { d \in DOMAIN dir_counts :
                    d \notin aggregated_children /\ d \notin parents }
    IN [ result |->
            [ d \in parents \cup kept |->
                IF d \in parents
                THEN DirectCount(dir_counts, d) + parent_overflow[d]
                ELSE dir_counts[d] ],
         aggregation_info |->
            [ p \in parents |->
                [ direct |-> DirectCount(dir_counts, p),
                  from_children |-> parent_overflow[p],
                  child_count |->
                    Cardinality({ d \in below : Parent(d) = p }) ] ] ]

(***************************************************************************)
(* The cooldown filter is_claude_md_recent (lines 453-496): TRUE when the  *)
(* session state records a generation of the directory less than           *)
(* cooldown_minutes ago.                                                   *)
(***************************************************************************)
is_claude_md_recent(dir_path, cooldown_minutes, session_state, clock) ==
    /\ dir_path \in DOMAIN session_state.generation_times
    /\ clock - session_state.generation_times[dir_path] < cooldown_minutes

\* lines 664-667: the directories of dir_counts at or above the threshold
AtThreshold(dir_counts, threshold) ==
    { d \in DOMAIN dir_counts : ~(dir_counts[d] < threshold) }

\* lines 669-673: those already suggested in this session
SkippedAlreadySuggested(dir_counts, threshold, session_state) ==
    AtThreshold(dir_counts, threshold) \cap session_state.suggested_directories

\* lines 675-678: those of the rest within the cooldown
SkippedCooldown(dir_counts, threshold, cooldown_minutes, session_state, clock) ==
    { d \in AtThreshold(dir_counts, threshold)
             \ session_state.suggested_directories :
        is_claude_md_recent(d, cooldown_minutes, session_state, clock) }

\* lines 664-681: the directories of dir_counts that become candidates
CandidateDirs(dir_counts, threshold, cooldown_minutes, session_state, clock) ==
    (AtThreshold(dir_counts, threshold) \ session_state.suggested_directories)
        \ SkippedCooldown(dir_counts, threshold, cooldown_minutes,
                          session_state, clock)

\* a state update that records nothing
RecordNothing(session_state, dirs_list, clock) == session_state

\* a record of the candidates without their generation times
RecordWithoutStamp(session_state, dirs_list, clock) ==
    [session_state EXCEPT !.suggested_directories = @ \cup dirs_list]

\* a record of the generation times without the suggested directories
RecordStampOnly(session_state, dirs_list, clock) ==
    [session_state EXCEPT
        !.generation_times =
            [ d \in (DOMAIN @) \cup dirs_list |->
                IF d \in dirs_list THEN clock ELSE @[d] ] ]

\* lines 711-715: the candidates are recorded in the session state
RecordSuggested(session_state, dirs_list, clock) ==
    [session_state EXCEPT
        !.suggested_directories = @ \cup dirs_list,
        !.generation_times =
            [ d \in (DOMAIN @) \cup dirs_list |->
                IF d \in dirs_list THEN clock ELSE @[d] ] ]

(***************************************************************************)
(* The session state store.  A state file is missing, holds a state, or    *)
(* holds text that is not valid JSON ("corrupt"); mtime is the time of     *)
(* its last write.                                                         *)
(***************************************************************************)
MissingFile == [kind |-> "missing", st |-> default_state, mtime |-> 0]
CorruptFile(t) == [kind |-> "corrupt", st |-> default_state, mtime |-> t]
StateFile(st, t) == [kind |-> "state", st |-> st, mtime |-> t]

\* lines 111-149; a file that cannot be parsed gives the default state
load_session_state(f, readable) ==
    IF f.kind = "missing" THEN default_state
    ELSE IF readable /\ f.kind = "state" THEN f.st
    ELSE default_state

\* lines 152-161; result "ok": the file is written; "fail": the directory or
\* the file cannot be opened, nothing is written; "torn": the file is
\* truncated by open and the write raises
save_session_state(f, state, result, clock) ==
    CASE result = "ok" -> StateFile([state EXCEPT !.last_run_time = clock], clock)
      [] result = "torn" -> CorruptFile(clock)
      [] OTHER -> f

SaveResults == {"ok", "fail", "torn"}

\* lines 206-230: the files of the state directory older than max_age_days
cleanup_stale_files(files, clock) ==
    [ t \in DOMAIN files |->
        IF files[t].kind # "missing"
           /\ clock - files[t].mtime > MaxAgeDays * MinutesPerDay
        THEN MissingFile ELSE files[t] ]

(***************************************************************************)
(* main (lines 571-754), once the entry guards are passed.  Returns the    *)
(* state to save and the candidate directories (empty: no decision).       *)
(***************************************************************************)
\* a main that goes on to the grouping whatever the judge returned
NotCompleteIgnored(completion) == FALSE

\* line 634: the test of the early exit of a session judged not complete
NotComplete(completion) == ~completion.is_complete

\* a not complete check that moves the cursor to the end of the lines read
NotCompleteStateAdvanced(session_state, scan_result) ==
    [session_state EXCEPT
        !.completion_cache = scan_result.completion_cache,
        !.last_processed_line = scan_result.last_line]

\* lines 631-637: the state saved by a check judged not complete
NotCompleteState(session_state, scan_result) ==
    [session_state EXCEPT !.completion_cache = scan_result.completion_cache]

MainDecide(session_state, lines, readN, threshold, cooldown_minutes, excluded_dirs, clock) ==
    LET scan_result == scan_transcript(lines, readN,
                            session_state.last_processed_line,
                            session_state.completion_cache)
        st1 == [session_state EXCEPT
                    !.completion_cache = scan_result.completion_cache]
        st2 == [st1 EXCEPT !.last_processed_line = scan_result.last_line]
        grouped == group_files_by_directory(scan_result.file_paths,
                        excluded_dirs, threshold)
        candidate_dirs == CandidateDirs(grouped.result, threshold,
                            cooldown_minutes, session_state, clock)
        quiet == [ state |-> NotCompleteState(session_state, scan_result),
                   dirs |-> {},
                   skipped_already_suggested |-> {}, skipped_dirs |-> {},
                   completion |-> scan_result.completion ]
    IN  IF NotComplete(scan_result.completion)          \* lines 634-638
        THEN quiet
        ELSE IF scan_result.file_paths = << >>          \* lines 640-645
        THEN [quiet EXCEPT !.state = st2]
        ELSE [ state |-> IF candidate_dirs = {}         \* lines 686-692
                         THEN st2
                         ELSE RecordSuggested(st2, candidate_dirs, clock),
               dirs |-> candidate_dirs,
               skipped_already_suggested |->
                    SkippedAlreadySuggested(grouped.result, threshold,
                                            session_state),
               skipped_dirs |->
                    SkippedCooldown(grouped.result, threshold,
                                    cooldown_minutes, session_state, clock),
               completion |-> scan_result.completion ]

(***************************************************************************)
(* What one run of main leaves behind for an observer: how it was          *)
(* entered, what the environment did to it, what it printed and its exit   *)
(* status.  NoOut: no run of main was the last thing to happen.            *)
(***************************************************************************)
Entries == {"run", "bad_stdin", "stop_hook_active", "no_transcript", "auto_off"}

\* ran: a run of main was the last thing to happen; guarded: it stopped at an
\* entry guard; full_read: it read the transcript to its end; saved: it wrote
\* the state file; complete: it judged the session complete; dirs: the
\* directories of the decision it printed; skipped_already_suggested and
\* skipped_dirs: the directories it left out of the decision
NoOut ==
    [ ran |-> FALSE, session |-> "-", guarded |-> FALSE, full_read |-> TRUE,
      saved |-> TRUE, complete |-> FALSE, decision |-> "none", dirs |-> {},
      skipped_already_suggested |-> {}, skipped_dirs |-> {}, exit |-> 0 ]

\* lines 573-597 and 752-754: every way out of main before the state is
\* loaded is sys.exit(0), also through the except clause
EntryExit(entry) == 0

\* lines 638, 645, 692, 750: sys.exit(0) after the state is saved
FinalExit(dirs) == 0

\* line 600: a session is a team session when the hook input names a team
TeamSessions == {"B"}

\* lines 738-747
Decision(is_team_session) == IF is_team_session THEN "allow" ELSE "block"

\* notified_at: the directories the checks of the session have notified, with
\*   the time of the last notification; dup: some check notified a directory
\*   that an earlier check of the session had notified; lost: the state store
\*   lost a record (a save that did not write the notified directories, a
\*   state file left corrupt or removed); appended: the lines appended since
\*   the start; times: how many checks of the session have notified each
\*   directory
NoHist ==
    [ notified_at |-> [d \in {} |-> 0], dup |-> FALSE, lost |-> FALSE,
      appended |-> 0, times |-> [d \in {} |-> 0] ]

\* the history after a check of the session notified dirs at time clock
Notified(h, dirs, clock) ==
    [ h EXCEPT
        !.notified_at = [ d \in (DOMAIN @) \cup dirs |->
                            IF d \in dirs THEN clock ELSE @[d] ],
        !.dup = @ \/ (dirs \cap DOMAIN h.notified_at # {}),
        !.times = [ d \in (DOMAIN @) \cup dirs |->
                      LET n == IF d \in DOMAIN @ THEN @[d] ELSE 0
                      IN IF d \in dirs /\ n < MaxNotes THEN n + 1 ELSE n ] ]

(***************************************************************************)
(* Actions.                                                                *)
(***************************************************************************)
\* the assistant appends a line to the transcript of session s
AppendLine(s, line, max_append) ==
    /\ hist[s].appended < max_append
    /\ log' = [log EXCEPT ![s] = Append(@, line)]
    /\ hist' = [hist EXCEPT ![s].appended = @ + 1]
    /\ out' = NoOut
    /\ UNCHANGED <<file, now, judge_in, judge_out, group_in, group_out, run, lock, procs, lk, scan_in, scan_out, mig, sw, incr, ld, sc, mw>>

\* time passes
Tick(max_now) ==
    /\ now + TickMinutes <= max_now
    /\ now' = now + TickMinutes
    /\ out' = NoOut
    /\ UNCHANGED <<log, file, hist, judge_in, judge_out, group_in, group_out, run, lock, procs, lk, scan_in, scan_out, mig, sw, incr, ld, sc, mw>>

\* a main that resets the state file of the session when it stops at a guard
CheckGuardedResets(s, entry) ==
    /\ entry \in Entries \ {"run"}
    /\ out' = [NoOut EXCEPT !.ran = TRUE, !.session = s, !.guarded = TRUE,
                            !.exit = EntryExit(entry)]
    /\ file' = [file EXCEPT ![s] = MissingFile]
    /\ UNCHANGED <<log, now, hist, judge_in, judge_out, group_in, group_out, run, lock, procs, lk, scan_in, scan_out, mig, sw, incr, ld, sc, mw>>

\* main is run for session s and stops at an entry guard or on an exception
\* before the state is loaded (lines 573-597, 752-754)
CheckGuarded(s, entry) ==
    /\ entry \in Entries \ {"run"}
    /\ out' = [NoOut EXCEPT !.ran = TRUE, !.session = s, !.guarded = TRUE,
                            !.exit = EntryExit(entry)]
    /\ UNCHANGED <<log, file, now, hist, judge_in, judge_out, group_in, group_out, run, lock, procs, lk, scan_in, scan_out, mig, sw, incr, ld, sc, mw>>

\* main is run for session s and passes the entry guards (lines 604-750)
Check(s, readN, save_result) ==
    /\ readN \in 0..Len(log[s])
    /\ save_result \in SaveResults
    /\ \E session_state \in {load_session_state(file[s], TRUE)} :
       \E files1 \in {IF session_state.last_processed_line = 0   \* lines 609-611
                      THEN cleanup_stale_files(file, now) ELSE file} :
       \E d \in {MainDecide(session_state, log[s], readN, DEFAULT_THRESHOLD,
                    DEFAULT_COOLDOWN_MINUTES, DEFAULT_EXCLUDED_DIRS, now)} :
          /\ file' = [files1 EXCEPT
                        ![s] = save_session_state(@, d.state, save_result, now)]
          /\ out' = [ ran |-> TRUE, session |-> s, guarded |-> FALSE,
                      full_read |-> readN = Len(log[s]),
                      saved |-> save_result = "ok",
                      complete |-> d.completion.is_complete,
                      decision |-> IF d.dirs = {} THEN "none"
                                   ELSE Decision(s \in TeamSessions),
                      dirs |-> d.dirs,
                      skipped_already_suggested |-> d.skipped_already_suggested,
                      skipped_dirs |-> d.skipped_dirs,
                      exit |-> FinalExit(d.dirs) ]
          /\ hist' = [ t \in Sessions |->
                        IF t = s
                        THEN [ Notified(hist[s], d.dirs, now) EXCEPT
                                 !.lost = \/ @
                                          \/ save_result = "torn"
                                          \/ (save_result = "fail" /\ d.dirs # {}) ]
                        ELSE [ hist[t] EXCEPT
                                 !.lost = @ \/ (file[t].kind # "missing"
                                                /\ files1[t].kind = "missing") ] ]
    /\ UNCHANGED <<log, now, judge_in, judge_out, group_in, group_out, run, lock, procs, lk, scan_in, scan_out, mig, sw, incr, ld, sc, mw>>

(***************************************************************************)
(* The lines the assistant writes in the checked runs.                     *)
(***************************************************************************)
SrcA == <<"src", "a.py">>
SrcB == <<"src", "b.py">>

\* an assistant message with two tool calls, both files in src
EditLine ==
    Line({}, TRUE, "ok", << Item("Edit", RawPath(FALSE, TRUE, SrcA)),
                            Item("Write", RawPath(TRUE, TRUE, SrcB)) >>)
CommitLine == Line({"commit"}, FALSE, "none", << >>)
QuietLine == Line({}, FALSE, "none", << >>)

Alphabet == {EditLine, CommitLine, QuietLine}

\* main is first run on a new transcript, or on one where the assistant has
\* edited two files of src, committed, and written two more lines
InitialTranscripts == { << >>, <<EditLine, CommitLine, QuietLine, QuietLine>> }

\* where the iteration over the transcript file may stop: at open, after the
\* first line, before the last line, or not at all
ReadStops(len) == {0, len} \cup ({1, len - 1} \cap 0..len)

NoScan == [lines |-> << >>, start_line |-> 0]
NoScanOut == [called |-> FALSE, result |-> << >>]
NoJudge == [has |-> {}, last_edit_index |-> -1, total_entries |-> 0]
NoJudgeOut == [is_complete |-> FALSE, reason |-> "-"]
NoGroup == [file_paths |-> << >>, excluded_dirs |-> {}, threshold |-> 0]
NoGroupOut == [called |-> FALSE, result |-> << >>, aggregation_info |-> << >>]

NoRun ==
    [ pc |-> "idle", session |-> "-", polls |-> 0, thrown |-> FALSE,
      timed_out |-> FALSE, saved |-> FALSE, full_read |-> FALSE,
      called |-> FALSE, entered |-> 0, caught |-> "none",
      state |-> default_state, dirs |-> {}, exit |-> None ]

\* the processes that run main at the same time
Procs == {"p1", "p2"}

NoProc == [ pc |-> "idle", state |-> default_state, dirs |-> {} ]

\* the processes that call file_lock on the same path
LockProcs == {"q1", "q2", "q3"}

\* settings.py line 46: no descriptor
NoFd == 0

\* the files the lock path may name over time: a removed file lives on while
\* a descriptor is open on it
Inodes == 1..(Cardinality(LockProcs) + 1)

NoCaller == [ pc |-> "start", fd |-> NoFd, polls |-> 0, by_lock |-> FALSE ]

\* path: the file the lock path names now, if any; holder[i]: who holds the
\* flock of file i; p[q]: where caller q is
NoLk ==
    [ path |-> NoFd,
      holder |-> [i \in Inodes |-> "-"],
      p |-> [q \in LockProcs |-> NoCaller] ]

ProcIdle ==
    /\ run = NoRun
    /\ lock = "free"
    /\ procs = [p \in Procs |-> NoProc]
    /\ lk = NoLk

ScanIdle == scan_in = NoScan /\ scan_out = NoScanOut

\* no call of get_session_state_path, no state file in either layout
NoMig ==
    [ transcript_path |-> "A", old |-> MissingFile, new |-> MissingFile,
      state_dir |-> FALSE, before |-> << >>, path |-> << >>, exit |-> "-" ]

MigIdle == mig = NoMig

\* no check yet of an empty transcript.  tested: the lines (numbered from 0)
\* that a check has tested for signals; scanned: those the last check
\* tested; retested: the last check tested a line that an earlier check had
\* tested; full_read: the last check read the transcript, as it is now, to
\* its end; complete: the last check judged the session complete; settled:
\* a check judged the session complete and only lines without an activity
\* marker were appended since; settled_before: settled held when the last
\* check started, and no line was appended since that check; edit_appended:
\* the last line was appended after the last check and carries an activity
\* marker; after_edit: edit_appended held when the last check started, and
\* no line was appended since; clean: every check so far read the whole
\* transcript and saved the state; grouped: the lines whose file-change
\* events a check judged complete has extracted for
\* group_files_by_directory; regrouped: some line was so extracted by two
\* checks
NoIncr ==
    [ lines |-> << >>, file |-> MissingFile, checks |-> 0,
      tested |-> {}, scanned |-> {}, retested |-> FALSE,
      full_read |-> FALSE, saved |-> FALSE,
      complete |-> FALSE, settled |-> FALSE, settled_before |-> FALSE,
      edit_appended |-> FALSE, after_edit |-> FALSE, clean |-> TRUE,
      grouped |-> {}, regrouped |-> FALSE ]

\* the files of the session state and cache in .claude: the two
\* subdirectories and the leftovers of the flat layout
SubEntries == {"local-memory-state/A", "local-memory-state/B", "local-memory-cache/A"}
FlatEntries == {"local-memory-state-A", "local-memory-state-B", "local-memory-cache-A"}
SweepEntries == SubEntries \cup FlatEntries

\* no call of cleanup_stale_files, an empty .claude
NoSweep ==
    [ files |-> [e \in SweepEntries |-> MissingFile], clock |-> 0, op |-> "-",
      session |-> "-", failed |-> "-", swept |-> FALSE,
      before |-> [e \in SweepEntries |-> MissingFile] ]

SweepIdle == sw = NoSweep

IncrIdle == incr = NoIncr

\* no call of load_session_state, no state file
NoLoad == [ content |-> [kind |-> "missing"], called |-> FALSE,
            result |-> default_state ]

LoadIdle == ld = NoLoad

\* no summary cache, no call of its functions
NoCache ==
    [ dir |-> "absent", old |-> [kind |-> "missing"], new |-> [kind |-> "missing"],
      pc |-> "idle", c |-> [directory |-> "", summaries |-> [f \in {} |-> 0]],
      save_raised |-> FALSE, load_raised |-> FALSE,
      loaded |-> [directory |-> "", summaries |-> [f \in {} |-> 0]] ]

CacheIdle == sc = NoCache

\* the state of a session of the md-watch hook (md-watch_stop.py, lines
\* 107-111), but for last_run_time, which the hook writes and never reads
md_default_state == [ last_processed_line |-> 0, suggested_files |-> << >> ]

\* no transcript, no state file, no check
NoMd ==
    [ lines |-> << >>,
      file |-> [kind |-> "missing", st |-> md_default_state, stale |-> FALSE],
      checks |-> 0, listed |-> {}, dup |-> FALSE, lost |-> FALSE,
      out |-> [ran |-> FALSE, reached |-> FALSE, start_line |-> 0,
               last_line |-> 0, listed |-> << >>, skipped |-> {},
               save_result |-> "ok"] ]

MdIdle == mw = NoMd

PureIdle ==
    /\ ProcIdle
    /\ ScanIdle
    /\ judge_in = NoJudge
    /\ judge_out = NoJudgeOut
    /\ group_in = NoGroup
    /\ group_out = NoGroupOut

MainIdle ==
    /\ ProcIdle
    /\ log = [s \in Sessions |-> << >>]
    /\ file = [s \in Sessions |-> MissingFile]
    /\ now = 0
    /\ out = NoOut
    /\ hist = [s \in Sessions |-> NoHist]

(***************************************************************************)
(* Spec: the checks of one session, one after the other, in an             *)
(* environment where the transcript grows and where reading the            *)
(* transcript and saving the state may each fail.                          *)
(***************************************************************************)
Init ==
    /\ log \in [Sessions -> InitialTranscripts]
    /\ log["B"] = << >>
    /\ file = [s \in Sessions |-> MissingFile]
    /\ now = 0
    /\ out = NoOut
    /\ hist = [s \in Sessions |-> NoHist]
    /\ PureIdle
    /\ MigIdle
    /\ SweepIdle
    /\ IncrIdle
    /\ LoadIdle
    /\ CacheIdle
    /\ MdIdle

Next ==
    \/ \E line \in Alphabet : AppendLine("A", line, MaxAppend)
    \/ \E entry \in Entries \ {"run"} : CheckGuarded("A", entry)
    \/ \E readN \in ReadStops(Len(log["A"])), sr \in SaveResults :
          Check("A", readN, sr)

Spec == Init /\ [][Next]_vars

(***************************************************************************)
(* SpecProject: two sessions of one project, each with its own transcript  *)
(* and state file, while time passes.  Reads and saves succeed.            *)
(***************************************************************************)
InitProject ==
    /\ log = [s \in Sessions |-> <<EditLine, CommitLine, QuietLine, QuietLine>>]
    /\ file = [s \in Sessions |-> MissingFile]
    /\ now = 0
    /\ out = NoOut
    /\ hist = [s \in Sessions |-> NoHist]
    /\ PureIdle
    /\ MigIdle
    /\ SweepIdle
    /\ IncrIdle
    /\ LoadIdle
    /\ CacheIdle
    /\ MdIdle

NextProject ==
    \/ \E s \in Sessions, line \in Alphabet : AppendLine(s, line, MaxAppendProject)
    \/ Tick(MaxNow)
    \/ \E s \in Sessions : Check(s, Len(log[s]), "ok")

SpecProject == InitProject /\ [][NextProject]_vars

(***************************************************************************)
(* SpecJudge: the completion judge on every combination of signals,        *)
(* last_edit_index and total_entries within the bounds.                    *)
(***************************************************************************)
InitJudge ==
    /\ MainIdle
    /\ MigIdle
    /\ SweepIdle
    /\ IncrIdle
    /\ LoadIdle
    /\ CacheIdle
    /\ MdIdle
    /\ ScanIdle
    /\ judge_in \in [ has : SUBSET Signals,
                      last_edit_index : -1..MaxTotal,
                      total_entries : 0..MaxTotal ]
    /\ judge_out = NoJudgeOut
    /\ group_in = NoGroup
    /\ group_out = NoGroupOut

JudgeCall ==
    /\ judge_out = NoJudgeOut
    /\ judge_out' = Judge("commit" \in judge_in.has, "test" \in judge_in.has,
                          "build" \in judge_in.has, "task" \in judge_in.has,
                          "phrase" \in judge_in.has,
                          judge_in.last_edit_index, judge_in.total_entries)
    /\ UNCHANGED <<log, file, now, out, hist, judge_in, group_in, group_out, run, lock, procs, lk, scan_in, scan_out, mig, sw, incr, ld, sc, mw>>

SpecJudge == InitJudge /\ [][JudgeCall]_vars

(***************************************************************************)
(* SpecGroup: group_files_by_directory on every list of distinct paths     *)
(* of the universe, set of excluded names and threshold within the bounds. *)
(***************************************************************************)
PathUniverse ==
    { <<"r.py">>, <<"src", "a.py">>, <<"src", "b.py">>,
      <<"src", "x", "c.py">>, <<"src", "y", "d.py">>,
      <<"src", "tests", "t.py">>, <<"lib", "z", "e.py">> }

DistinctLists(S, n) ==
    { q \in UNION { [1..k -> S] : k \in 0..n } :
        \A i, j \in DOMAIN q : i # j => q[i] # q[j] }

InitGroup ==
    /\ MainIdle
    /\ MigIdle
    /\ SweepIdle
    /\ IncrIdle
    /\ LoadIdle
    /\ CacheIdle
    /\ MdIdle
    /\ ScanIdle
    /\ judge_in = NoJudge
    /\ judge_out = NoJudgeOut
    /\ group_in \in [ file_paths : DistinctLists(PathUniverse, MaxFiles),
                      excluded_dirs : {{}, {"tests"}, DEFAULT_EXCLUDED_DIRS},
                      threshold : 1..MaxThreshold ]
    /\ group_out = NoGroupOut

GroupCall ==
    /\ ~group_out.called
    /\ \E g \in {group_files_by_directory(group_in.file_paths,
                    group_in.excluded_dirs, group_in.threshold)} :
          group_out' = [ called |-> TRUE, result |-> g.result,
                         aggregation_info |-> g.aggregation_info ]
    /\ UNCHANGED <<log, file, now, out, hist, judge_in, judge_out, group_in, run, lock, procs, lk, scan_in, scan_out, mig, sw, incr, ld, sc, mw>>

SpecGroup == InitGroup /\ [][GroupCall]_vars

(***************************************************************************)
(* SpecExclude: group_files_by_directory on paths that have an excluded    *)
(* token as a directory, as a part of the name of a directory, and as the  *)
(* name of the file.                                                       *)
(***************************************************************************)
ExcludePathUniverse ==
    { <<"src", "a.py">>, <<"src", "tests", "t.py">>,
      <<"src", "mytests", "u.py">>, <<"src", "tests">>, <<"tests">>,
      <<"tests", "x", "v.py">> }

InitExclude ==
    /\ MainIdle
    /\ MigIdle
    /\ SweepIdle
    /\ IncrIdle
    /\ LoadIdle
    /\ CacheIdle
    /\ MdIdle
    /\ ScanIdle
    /\ judge_in = NoJudge
    /\ judge_out = NoJudgeOut
    /\ group_in \in [ file_paths : DistinctLists(ExcludePathUniverse, MaxFiles),
                      excluded_dirs : {{}, {"tests"}, DEFAULT_EXCLUDED_DIRS},
                      threshold : 1..MaxThreshold ]
    /\ group_out = NoGroupOut

SpecExclude == InitExclude /\ [][GroupCall]_vars

(***************************************************************************)
(* Properties of the aggregator (SpecGroup).                               *)
(***************************************************************************)
\* the files of the input whose directory has no excluded segment
CountedFiles ==
    { i \in 1..Len(group_in.file_paths) :
        ~IsExcludedDir(Parent(group_in.file_paths[i]), group_in.excluded_dirs) }

\* C6 - aggregation conservation: the counts of the result add up to the
\* number of input files whose directory has no excluded segment.
C6_AggregationConservation ==
    group_out.called =>
        SumOver(DOMAIN group_out.result, group_out.result)
            = Cardinality(CountedFiles)

\* the directories of the input with their direct counts
InputCounts == DirCounts(group_in.file_paths, group_in.excluded_dirs)

\* the below-threshold children of a directory
OverflowChildren(parent) ==
    { d \in DOMAIN InputCounts :
        InputCounts[d] < group_in.threshold /\ Parent(d) = parent }

\* C19 - parent roll-up: a parent whose direct count plus the counts of its
\* below-threshold children reaches the threshold is in the result with that
\* combined count and with aggregation_info {direct, from_children,
\* child_count}, and none of those children is a key of the result.
C19_ParentRollUp ==
    group_out.called =>
        \A parent \in { Parent(d) : d \in DOMAIN InputCounts } :
            LET children == OverflowChildren(parent)
                direct == IF parent \in DOMAIN InputCounts
                          THEN InputCounts[parent] ELSE 0
                overflow == SumOver(children, InputCounts)
            IN (children # {} /\ direct + overflow >= group_in.threshold) =>
                  /\ parent \in DOMAIN group_out.result
                  /\ group_out.result[parent] = direct + overflow
                  /\ parent \in DOMAIN group_out.aggregation_info
                  /\ group_out.aggregation_info[parent] =
                        [ direct |-> direct, from_children |-> overflow,
                          child_count |-> Cardinality(children) ]
                  /\ children \cap DOMAIN group_out.result = {}

\* C25 - aggregation is one level deep: the count reported for a directory
\* is made of its own direct count and of the direct counts of its
\* below-threshold immediate children, and of nothing else; no file is
\* counted toward its grandparent.
C25_OneLevelDeep ==
    group_out.called =>
        \A k \in DOMAIN group_out.result :
            IF k \in DOMAIN group_out.aggregation_info
            THEN /\ group_out.aggregation_info[k].from_children =
                      SumOver(OverflowChildren(k), InputCounts)
                 /\ group_out.result[k] =
                      (IF k \in DOMAIN InputCounts THEN InputCounts[k] ELSE 0)
                      + SumOver(OverflowChildren(k), InputCounts)
            ELSE /\ k \in DOMAIN InputCounts
                 /\ group_out.result[k] = InputCounts[k]

\* a directory reported with the overflow of a child that itself has a
\* subdirectory with a file below the threshold: the grandchild's file is
\* not counted toward the directory
C25_Witness ==
    /\ group_out.called
    /\ \E k \in DOMAIN group_out.aggregation_info :
          \E d \in OverflowChildren(k) \ {k} :
              /\ OverflowChildren(d) \ {d} # {}
              /\ group_out.aggregation_info[k].from_children =
                    SumOver(OverflowChildren(k), InputCounts)

\* C26 - direct and overflow counts are additive: a directory whose direct
\* count reaches the threshold is reported with its direct count plus the
\* overflow of its below-threshold children, and with exactly its direct
\* count when it receives no overflow.
C26_DirectPlusOverflow ==
    group_out.called =>
        \A d \in DOMAIN InputCounts :
            InputCounts[d] >= group_in.threshold =>
                /\ d \in DOMAIN group_out.result
                /\ group_out.result[d] =
                      InputCounts[d] + SumOver(OverflowChildren(d), InputCounts)

\* a directory at the threshold by its own files that receives the overflow
\* of two children and is reported with more than its direct count
C26_Witness ==
    /\ group_out.called
    /\ \E d \in DOMAIN InputCounts :
          /\ InputCounts[d] >= group_in.threshold
          /\ Cardinality(OverflowChildren(d)) = 2
          /\ group_out.result[d] = InputCounts[d] + 2

(***************************************************************************)
(* Properties of the exclusion (SpecExclude).                              *)
(***************************************************************************)
\* the directories above a file, as a set of segments
DirSegments(file_path) ==
    { file_path[i] : i \in 1..(Len(file_path) - 1) }

\* the files of the input none of whose directories is an excluded token
NotExcluded ==
    SelectSeq(group_in.file_paths,
              LAMBDA f : DirSegments(f) \cap group_in.excluded_dirs = {})

\* C27 - exclusion is by exact directory segment: a file is left out of the
\* grouping if and only if a segment of its parent directory path equals an
\* excluded token; a token that is a part of a segment, or the name of the
\* file, does not exclude it.  The grouping is that of the files that are
\* not excluded, grouped with no exclusion.
C27_ExactSegmentExclusion ==
    group_out.called =>
        LET g == group_files_by_directory(NotExcluded, {}, group_in.threshold)
        IN /\ group_out.result = g.result
           /\ group_out.aggregation_info = g.aggregation_info

\* a call with the token "tests" that left out the file of src/tests and
\* counted the file of src/mytests and the file named tests
C27_Witness ==
    /\ group_out.called
    /\ group_in.threshold = 1
    /\ "tests" \in group_in.excluded_dirs
    /\ \E i \in DOMAIN group_in.file_paths :
          group_in.file_paths[i] = <<"src", "tests", "t.py">>
    /\ <<"src", "tests">> \notin DOMAIN group_out.result
    /\ <<"src", "mytests">> \in DOMAIN group_out.result
    /\ \E i \in DOMAIN group_in.file_paths :
          group_in.file_paths[i] = <<"tests">>
    /\ << >> \in DOMAIN group_out.result

(***************************************************************************)
(* Properties of the completion judge (SpecJudge).                         *)
(***************************************************************************)
JudgeCalled == judge_out # NoJudgeOut
JudgeQuiet == judge_in.total_entries - judge_in.last_edit_index

\* the rule table of the specification, first match wins
TableRules ==
    << [when |-> "commit" \in judge_in.has /\ JudgeQuiet > 3, reason |-> "commit"],
       [when |-> "test" \in judge_in.has /\ JudgeQuiet > 5, reason |-> "test"],
       [when |-> "build" \in judge_in.has /\ JudgeQuiet > 5, reason |-> "build"],
       [when |-> "task" \in judge_in.has /\ JudgeQuiet > 5, reason |-> "task"],
       [when |-> "phrase" \in judge_in.has /\ JudgeQuiet > 5, reason |-> "phrase"],
       [when |-> JudgeQuiet > 15, reason |-> "gap"] >>

FirstMatch == { i \in DOMAIN TableRules :
                  /\ TableRules[i].when
                  /\ \A j \in 1..(i - 1) : ~TableRules[j].when }

\* C8 - completion judge table: with last_edit_index >= 0 the judge answers
\* as the first matching rule of the table, with that rule's reason, and
\* "not complete" when no rule matches.
C8_JudgeTable ==
    (JudgeCalled /\ judge_in.last_edit_index >= 0) =>
        /\ judge_out.is_complete = (FirstMatch # {})
        /\ \A i \in FirstMatch : judge_out.reason = TableRules[i].reason

\* a case where the first match matters: commit and test both seen, quiet
\* enough for either rule
C8_Witness ==
    /\ JudgeCalled
    /\ judge_in.last_edit_index >= 0
    /\ {"commit", "test"} \subseteq judge_in.has
    /\ JudgeQuiet > 5
    /\ judge_out.reason = "commit"

\* C36 - the judge never interrupts active editing: whenever one of the last
\* three lines carries an activity marker (total_entries - last_edit_index
\* <= 3), the judge answers "not complete" for every combination of the
\* signal flags.
C36_NoCompleteWhileEditing ==
    (JudgeCalled /\ JudgeQuiet <= 3) => ~judge_out.is_complete

\* every signal seen and the last activity marker three lines before the end
C36_Witness ==
    /\ JudgeCalled
    /\ judge_in.has = Signals
    /\ judge_in.last_edit_index >= 0
    /\ JudgeQuiet = 3
    /\ ~judge_out.is_complete
    /\ judge_out.reason = "no_signals"

\* C9 - a session with no edits is never complete: with last_edit_index = -1
\* the judge answers "not complete" whatever the signals and the line count.
C9_NoEditsNeverComplete ==
    (JudgeCalled /\ judge_in.last_edit_index = -1) => ~judge_out.is_complete

(***************************************************************************)
(* SpecMain: one run of main after the other, taken step by step, while    *)
(* another process takes and releases the lock file of the state file.     *)
(* The lock is polled (settings.py, file_lock); the writer gives up        *)
(* waiting after the timeout and writes without the lock.                  *)
(***************************************************************************)
\* a lock that is waited for without end
LockNeverTimesOut(polls) == FALSE

\* settings.py lines 76-80: the timeout of 5.0 seconds has elapsed; the
\* model counts the polls, 0.05 seconds apart
LockTimedOut(polls) == polls >= MaxPolls

\* lines 573-597, 752-754: main stops before the state is loaded
MainGuarded(s, entry) ==
    /\ run.pc = "idle"
    /\ entry \in Entries \ {"run"}
    /\ run' = [NoRun EXCEPT !.pc = "exited", !.session = s,
                            !.exit = EntryExit(entry)]
    /\ out' = [NoOut EXCEPT !.ran = TRUE, !.session = s, !.guarded = TRUE,
                            !.exit = EntryExit(entry)]
    /\ UNCHANGED <<log, file, now, hist, judge_in, judge_out, group_in,
                   group_out, lock, procs, lk, scan_in, scan_out, mig, sw, incr, ld, sc, mw>>

\* lines 604-715 and 154-155: main loads the state, scans the transcript,
\* decides, and enters save_session_state; os.makedirs succeeds or raises
MainScan(s, readN, makedirs_ok) ==
    /\ run.pc = "idle"
    /\ readN \in 0..Len(log[s])
    /\ \E session_state \in {load_session_state(file[s], TRUE)} :
       \E files1 \in {IF session_state.last_processed_line = 0
                      THEN cleanup_stale_files(file, now) ELSE file} :
       \E d \in {MainDecide(session_state, log[s], readN, DEFAULT_THRESHOLD,
                    DEFAULT_COOLDOWN_MINUTES, DEFAULT_EXCLUDED_DIRS, now)} :
          /\ file' = files1
          /\ run' = [NoRun EXCEPT
                        !.pc = IF makedirs_ok THEN "acquire" ELSE "print",
                        !.called = makedirs_ok,
                        !.session = s,
                        !.full_read = readN = Len(log[s]),
                        !.state = d.state,
                        !.dirs = d.dirs]
    /\ out' = NoOut
    /\ UNCHANGED <<log, now, hist, judge_in, judge_out, group_in, group_out,
                   lock, procs, lk, scan_in, scan_out, mig, sw, incr, ld, sc, mw>>

\* a lock that lets the body run again after it has thrown
YieldedAgain(r) ==
    [r EXCEPT !.pc = "write", !.entered = IF @ < 2 THEN @ + 1 ELSE @]

\* settings.py line 67 or 79: file_lock yields.  The first time the body of
\* the with statement runs; a second yield, after the body has thrown, is a
\* RuntimeError, which save_session_state swallows (lines 159-160).
\* entered counts the runs of the body, up to "more than once"; caught is
\* the exception that reaches the except clause of save_session_state
Yielded(r) ==
    [r EXCEPT !.pc = IF r.thrown THEN "print" ELSE "write",
              !.entered = IF r.thrown THEN @ ELSE IF @ < 2 THEN @ + 1 ELSE @,
              !.caught = IF r.thrown THEN "RuntimeError" ELSE @]

\* settings.py lines 52-70: one attempt to take the lock
LockAcquire ==
    /\ run.pc = "acquire"
    /\ IF lock = "free"
       THEN /\ lock' = "main"
            /\ run' = Yielded(run)
       ELSE /\ lock' = lock
            /\ run' = [run EXCEPT !.pc = "backoff"]
    /\ UNCHANGED <<log, file, now, out, hist, judge_in, judge_out, group_in,
                   group_out, procs, lk, scan_in, scan_out, mig, sw, incr, ld, sc, mw>>

\* settings.py lines 70-82: the lock was not available, or the body threw
\* an OSError
LockBackoff ==
    /\ run.pc = "backoff"
    /\ IF LockTimedOut(run.polls)
       THEN run' = Yielded([run EXCEPT !.timed_out = TRUE])
       ELSE run' = [run EXCEPT !.pc = "acquire",
                               !.polls = IF @ < MaxPolls THEN @ + 1 ELSE @]
    /\ UNCHANGED <<log, file, now, out, hist, judge_in, judge_out, group_in,
                   group_out, lock, procs, lk, scan_in, scan_out, mig, sw, incr, ld, sc, mw>>

\* lines 157-158: the body of the with statement writes the state file.  On
\* success file_lock unlocks and removes the lock file (settings.py lines
\* 84-102); an OSError is thrown into file_lock, which closes its descriptor
\* and goes on polling (settings.py lines 70-82)
MainWrite(save_result) ==
    /\ run.pc = "write"
    /\ save_result \in SaveResults
    /\ file' = [file EXCEPT ![run.session] =
                    save_session_state(@, run.state, save_result, now)]
    /\ run' = IF save_result = "ok"
              THEN [run EXCEPT !.pc = "print", !.saved = TRUE]
              ELSE [run EXCEPT !.pc = "backoff", !.thrown = TRUE]
    /\ lock' = IF lock = "main" THEN "free" ELSE lock
    /\ UNCHANGED <<log, now, out, hist, judge_in, judge_out, group_in,
                   group_out, procs, lk, scan_in, scan_out, mig, sw, incr, ld, sc, mw>>

\* lines 638, 645, 692, 717-750: main prints the decision, if any, and
\* exits; the exit of the process releases a lock it still holds
MainPrint ==
    /\ run.pc = "print"
    /\ run' = [run EXCEPT !.pc = "exited", !.exit = FinalExit(run.dirs)]
    /\ out' = [NoOut EXCEPT
                 !.ran = TRUE, !.session = run.session,
                 !.full_read = run.full_read, !.saved = run.saved,
                 !.decision = IF run.dirs = {} THEN "none"
                              ELSE Decision(run.session \in TeamSessions),
                 !.dirs = run.dirs,
                 !.exit = FinalExit(run.dirs)]
    /\ hist' = [hist EXCEPT ![run.session] =
                    [ Notified(@, run.dirs, now) EXCEPT
                        !.lost = @ \/ ~run.saved ]]
    /\ lock' = IF lock = "main" THEN "free" ELSE lock
    /\ UNCHANGED <<log, file, now, judge_in, judge_out, group_in, group_out, procs, lk, scan_in, scan_out, mig, sw, incr, ld, sc, mw>>

\* the hook is run again
MainAgain ==
    /\ run.pc = "exited"
    /\ run' = NoRun
    /\ UNCHANGED <<log, file, now, out, hist, judge_in, judge_out, group_in,
                   group_out, lock, procs, lk, scan_in, scan_out, mig, sw, incr, ld, sc, mw>>

\* another process takes the lock file
OtherLock ==
    /\ lock = "free"
    /\ lock' = "other"
    /\ UNCHANGED <<log, file, now, out, hist, judge_in, judge_out, group_in,
                   group_out, run, procs, lk, scan_in, scan_out, mig, sw, incr, ld, sc, mw>>

\* and releases it
OtherUnlock ==
    /\ lock = "other"
    /\ lock' = "free"
    /\ UNCHANGED <<log, file, now, out, hist, judge_in, judge_out, group_in,
                   group_out, run, procs, lk, scan_in, scan_out, mig, sw, incr, ld, sc, mw>>

\* the steps of main that follow the scan
MainStep == LockAcquire \/ LockBackoff \/ (\E sr \in SaveResults : MainWrite(sr))
                \/ MainPrint

InitMain == InitProject

NextMain ==
    \/ \E line \in Alphabet :
          run.pc = "idle" /\ AppendLine("A", line, MaxAppendMain)
    \/ \E entry \in Entries \ {"run"} : MainGuarded("A", entry)
    \/ \E readN \in ReadStops(Len(log["A"])), makedirs_ok \in BOOLEAN :
          MainScan("A", readN, makedirs_ok)
    \/ LockAcquire
    \/ LockBackoff
    \/ \E sr \in SaveResults : MainWrite(sr)
    \/ MainPrint
    \/ MainAgain
    \/ OtherLock
    \/ OtherUnlock

\* a run of main that has started goes on; the other process may keep the
\* lock for ever
SpecMain == InitMain /\ [][NextMain]_vars /\ WF_vars(MainStep)

(***************************************************************************)
(* SpecRace: two runs of main on the same session as separate processes.   *)
(* Each loads the state file without a lock, scans the transcript, and     *)
(* writes the state file under file_lock; the steps interleave, and the    *)
(* transcript may grow in between.                                         *)
(***************************************************************************)
LibE == <<"lib", "e.py">>
LibF == <<"lib", "f.py">>

\* an assistant message with two tool calls, both files in lib
LibEditLine ==
    Line({}, TRUE, "ok", << Item("Edit", RawPath(FALSE, TRUE, LibE)),
                            Item("Write", RawPath(FALSE, TRUE, LibF)) >>)

\* lines 604-606: the process loads the state of the session
RaceLoad(p) ==
    /\ procs[p].pc = "idle"
    /\ procs' = [procs EXCEPT ![p] =
                    [@ EXCEPT !.pc = "loaded",
                              !.state = load_session_state(file["A"], TRUE)]]
    /\ UNCHANGED <<log, file, now, out, hist, judge_in, judge_out, group_in,
                   group_out, run, lock, lk, scan_in, scan_out, mig, sw, incr, ld, sc, mw>>

\* lines 613-715: it scans the transcript as it is now and decides
RaceScan(p) ==
    /\ procs[p].pc = "loaded"
    /\ \E d \in {MainDecide(procs[p].state, log["A"], Len(log["A"]),
                    DEFAULT_THRESHOLD, DEFAULT_COOLDOWN_MINUTES,
                    DEFAULT_EXCLUDED_DIRS, now)} :
          procs' = [procs EXCEPT ![p] =
                      [pc |-> "decided", state |-> d.state, dirs |-> d.dirs]]
    /\ UNCHANGED <<log, file, now, out, hist, judge_in, judge_out, group_in,
                   group_out, run, lock, lk, scan_in, scan_out, mig, sw, incr, ld, sc, mw>>

\* line 157 (settings.py lines 52-80): it takes the lock of the state file,
\* or gives up waiting for it
RaceLock(p) ==
    /\ procs[p].pc = "decided"
    /\ lock' = IF lock = "free" THEN p ELSE lock
    /\ procs' = [procs EXCEPT ![p].pc = "locked"]
    /\ UNCHANGED <<log, file, now, out, hist, judge_in, judge_out, group_in,
                   group_out, run, lk, scan_in, scan_out, mig, sw, incr, ld, sc, mw>>

\* lines 157-158 and 717-750: it writes the state file, releases the lock
\* and prints its decision
RaceWrite(p) ==
    /\ procs[p].pc = "locked"
    /\ file' = [file EXCEPT !["A"] =
                    save_session_state(@, procs[p].state, "ok", now)]
    /\ lock' = IF lock = p THEN "free" ELSE lock
    /\ procs' = [procs EXCEPT ![p].pc = "done"]
    /\ out' = [NoOut EXCEPT
                 !.ran = TRUE, !.session = "A",
                 !.decision = IF procs[p].dirs = {} THEN "none"
                              ELSE Decision("A" \in TeamSessions),
                 !.dirs = procs[p].dirs,
                 !.exit = FinalExit(procs[p].dirs)]
    /\ hist' = [hist EXCEPT !["A"] = Notified(@, procs[p].dirs, now)]
    /\ UNCHANGED <<log, now, judge_in, judge_out, group_in, group_out, run, lk, scan_in, scan_out, mig, sw, incr, ld, sc, mw>>

InitRace == InitProject

NextRace ==
    \/ \E line \in {LibEditLine, QuietLine} : AppendLine("A", line, MaxAppendRace)
    \/ \E p \in Procs : RaceLoad(p)
    \/ \E p \in Procs : RaceScan(p)
    \/ \E p \in Procs : RaceLock(p)
    \/ \E p \in Procs : RaceWrite(p)

SpecRace == InitRace /\ [][NextRace]_vars

(***************************************************************************)
(* SpecLock: file_lock (settings.py lines 38-102) on one path, called by   *)
(* several processes, one system call at a time.                           *)
(***************************************************************************)
\* a file that neither the path nor a descriptor refers to
FreshInode ==
    CHOOSE i \in Inodes :
        /\ i # lk.path /\ \A q \in LockProcs : lk.p[q].fd # i
        /\ \A j \in Inodes :
              (j # lk.path /\ \A q \in LockProcs : lk.p[q].fd # j) => i <= j

\* line 54: os.open(lock_file, O_CREAT | O_RDWR) opens the file the path
\* names, creating it when there is none
LkOpen(q) ==
    /\ lk.p[q].pc = "start"
    /\ \E i \in {IF lk.path = NoFd THEN FreshInode ELSE lk.path} :
          lk' = [lk EXCEPT !.path = i,
                           !.p[q] = [@ EXCEPT !.pc = "flock", !.fd = i]]
    /\ UNCHANGED <<log, file, now, out, hist, judge_in, judge_out, group_in,
                   group_out, run, lock, procs, scan_in, scan_out, mig, sw, incr, ld, sc, mw>>

\* lines 64-74: flock(fd, LOCK_EX | LOCK_NB) takes the lock of the open file
\* and the caller enters the block, or raises and the descriptor is closed
LkFlock(q) ==
    /\ lk.p[q].pc = "flock"
    /\ IF lk.holder[lk.p[q].fd] = "-"
       THEN lk' = [lk EXCEPT !.holder[lk.p[q].fd] = q,
                             !.p[q] = [@ EXCEPT !.pc = "inside", !.by_lock = TRUE]]
       ELSE lk' = [lk EXCEPT !.p[q] = [@ EXCEPT !.pc = "backoff", !.fd = NoFd]]
    /\ UNCHANGED <<log, file, now, out, hist, judge_in, judge_out, group_in,
                   group_out, run, lock, procs, scan_in, scan_out, mig, sw, incr, ld, sc, mw>>

\* lines 76-82: after the timeout the caller enters the block without the
\* lock; before it, it sleeps and tries again
LkBackoff(q) ==
    /\ lk.p[q].pc = "backoff"
    /\ IF LockTimedOut(lk.p[q].polls)
       THEN lk' = [lk EXCEPT !.p[q] = [@ EXCEPT !.pc = "inside"]]
       ELSE lk' = [lk EXCEPT !.p[q] = [@ EXCEPT !.pc = "start", !.polls = @ + 1]]
    /\ UNCHANGED <<log, file, now, out, hist, judge_in, judge_out, group_in,
                   group_out, run, lock, procs, scan_in, scan_out, mig, sw, incr, ld, sc, mw>>

\* lines 68, 84-95: the block is done; with a descriptor the caller unlocks
LkUnlock(q) ==
    /\ lk.p[q].pc = "inside"
    /\ IF lk.p[q].fd = NoFd
       THEN lk' = [lk EXCEPT !.p[q] = [@ EXCEPT !.pc = "end"]]
       ELSE lk' = [lk EXCEPT !.holder[lk.p[q].fd] = "-",
                             !.p[q] = [@ EXCEPT !.pc = "close", !.by_lock = FALSE]]
    /\ UNCHANGED <<log, file, now, out, hist, judge_in, judge_out, group_in,
                   group_out, run, lock, procs, scan_in, scan_out, mig, sw, incr, ld, sc, mw>>

\* line 96: os.close(fd)
LkClose(q) ==
    /\ lk.p[q].pc = "close"
    /\ lk' = [lk EXCEPT !.p[q] = [@ EXCEPT !.pc = "remove", !.fd = NoFd]]
    /\ UNCHANGED <<log, file, now, out, hist, judge_in, judge_out, group_in,
                   group_out, run, lock, procs, scan_in, scan_out, mig, sw, incr, ld, sc, mw>>

\* lines 99-102: os.remove(lock_file) removes whatever file the path names
LkRemove(q) ==
    /\ lk.p[q].pc = "remove"
    /\ lk' = [lk EXCEPT !.path = NoFd, !.p[q] = [@ EXCEPT !.pc = "end"]]
    /\ UNCHANGED <<log, file, now, out, hist, judge_in, judge_out, group_in,
                   group_out, run, lock, procs, scan_in, scan_out, mig, sw, incr, ld, sc, mw>>

\* the process calls file_lock again
LkAgain(q) ==
    /\ lk.p[q].pc = "end"
    /\ lk' = [lk EXCEPT !.p[q] = NoCaller]
    /\ UNCHANGED <<log, file, now, out, hist, judge_in, judge_out, group_in,
                   group_out, run, lock, procs, scan_in, scan_out, mig, sw, incr, ld, sc, mw>>

InitLock == InitProject

NextLock ==
    \/ \E q \in LockProcs : LkOpen(q)
    \/ \E q \in LockProcs : LkFlock(q)
    \/ \E q \in LockProcs : LkBackoff(q)
    \/ \E q \in LockProcs : LkUnlock(q)
    \/ \E q \in LockProcs : LkClose(q)
    \/ \E q \in LockProcs : LkRemove(q)
    \/ \E q \in LockProcs : LkAgain(q)

SpecLock == InitLock /\ [][NextLock]_vars

(***************************************************************************)
(* SpecScan: scan_transcript on every transcript of the lines below within *)
(* the bound, from every start line.                                       *)
(***************************************************************************)
\* a line with the "tool_use" marker that is not valid JSON
BadJsonLine == Line({}, FALSE, "badjson", << >>)

\* valid JSON with the marker and neither envelope: {"x": "tool_use"}
NoEnvelopeLine == Line({}, FALSE, "noenv", << >>)

\* valid JSON with the marker, neither envelope, and a "data" that is not a
\* container: {"data": null, "type": "tool_use"}
NullDataLine == Line({}, FALSE, "raise", << >>)

\* an edit of /other/y.py
OutsideLine ==
    Line({}, TRUE, "ok", << Item("Edit", RawPath(TRUE, FALSE, <<"y.py">>)) >>)

\* an edit of /proj-old/src/a.py, the project root being /proj
SiblingLine ==
    Line({}, TRUE, "ok",
         << Item("Edit", SiblingPath(<<"-old", "src", "a.py">>)) >>)

\* a message that reads lib/e.py and edits /proj/src/a.py, the file that
\* EditLine names src/a.py
ReadAndEditLine ==
    Line({}, TRUE, "ok", << Item("Read", RawPath(FALSE, TRUE, LibE)),
                            Item("Edit", RawPath(TRUE, TRUE, SrcA)) >>)

ScanAlphabet ==
    { EditLine, LibEditLine, QuietLine, BadJsonLine, NoEnvelopeLine,
      NullDataLine, OutsideLine, SiblingLine, ReadAndEditLine }

InitScan ==
    /\ MainIdle
    /\ MigIdle
    /\ SweepIdle
    /\ IncrIdle
    /\ LoadIdle
    /\ CacheIdle
    /\ MdIdle
    /\ judge_in = NoJudge
    /\ judge_out = NoJudgeOut
    /\ group_in = NoGroup
    /\ group_out = NoGroupOut
    /\ \E n \in 0..MaxScanLines :
          scan_in \in [ lines : [1..n -> ScanAlphabet], start_line : 0..n ]
    /\ scan_out = NoScanOut

\* the scan of the whole file, with no cache
ScanCall ==
    /\ ~scan_out.called
    /\ scan_out' = [ called |-> TRUE,
                     result |-> scan_transcript(scan_in.lines,
                                    Len(scan_in.lines), scan_in.start_line,
                                    default_completion_cache) ]
    /\ UNCHANGED <<log, file, now, out, hist, judge_in, judge_out, group_in,
                   group_out, run, lock, procs, lk, scan_in, mig, sw, incr, ld, sc, mw>>

SpecScan == InitScan /\ [][ScanCall]_vars

(***************************************************************************)
(* SpecMigrate: one call of get_session_state_path (lines 92-108) in a     *)
(* .claude directory that holds the state file of the transcript in the    *)
(* flat layout (mig.old: .claude/local-memory-state-<hash>.json), in the   *)
(* subdirectory layout (mig.new: .claude/local-memory-state/<hash>.json),  *)
(* in both or in neither.  os.makedirs and os.rename may each raise        *)
(* OSError.                                                                *)
(***************************************************************************)
\* line 95: the first 12 hex digits of the MD5 of the transcript path
transcript_hash(transcript_path) == <<"md5", transcript_path>>

\* lines 96-97
new_path(transcript_path) ==
    << ".claude", "local-memory-state", transcript_hash(transcript_path), ".json" >>

\* line 100
old_path(transcript_path) ==
    << ".claude", "local-memory-state-", transcript_hash(transcript_path), ".json" >>

\* os.path.exists
Exists(f) == f.kind # "missing"

\* the contents a state file may have: the states a check saves
MigStates ==
    { [default_state EXCEPT !.last_processed_line = n,
                            !.suggested_directories = d] :
        n \in 0..MaxMigLine, d \in { {}, { <<"src">> } } }

MigFiles ==
    {MissingFile, CorruptFile(0)} \cup { StateFile(st, 0) : st \in MigStates }

OsResults == {"ok", "OSError"}

\* lines 92-108; makedirs and rename are the results of os.makedirs and of
\* os.rename: "ok" or "OSError"
get_session_state_path(d, makedirs, rename) ==
    LET before == [old |-> d.old, new |-> d.new]
    IN IF Exists(d.old) /\ ~Exists(d.new)
       THEN IF ~d.state_dir /\ makedirs = "OSError"
            THEN \* line 102 raises: the function does not return
                 [d EXCEPT !.before = before, !.exit = "raised"]
            ELSE IF rename = "ok"
            THEN [d EXCEPT !.before = before, !.state_dir = TRUE,
                           !.new = d.old, !.old = MissingFile,
                           !.path = new_path(d.transcript_path),
                           !.exit = "returned"]
            ELSE \* lines 105-106: the OSError of os.rename is swallowed
                 [d EXCEPT !.before = before, !.state_dir = TRUE,
                           !.path = new_path(d.transcript_path),
                           !.exit = "returned"]
       ELSE [d EXCEPT !.before = before,
                      !.path = new_path(d.transcript_path),
                      !.exit = "returned"]

InitMigrate ==
    /\ MainIdle
    /\ PureIdle
    /\ SweepIdle
    /\ IncrIdle
    /\ LoadIdle
    /\ CacheIdle
    /\ MdIdle
    /\ mig \in [ transcript_path : Sessions, old : MigFiles, new : MigFiles,
                 state_dir : BOOLEAN, before : {<< >>}, path : {<< >>},
                 exit : {"-"} ]
    /\ Exists(mig.new) => mig.state_dir

MigrateCall ==
    /\ mig.exit = "-"
    /\ \E makedirs \in OsResults, rename \in OsResults :
          mig' = get_session_state_path(mig, makedirs, rename)
    /\ UNCHANGED <<log, file, now, out, hist, judge_in, judge_out, group_in,
                   group_out, run, lock, procs, lk, scan_in, scan_out, sw, incr, ld, sc, mw>>

SpecMigrate == InitMigrate /\ [][MigrateCall]_vars

(***************************************************************************)
(* SpecSweep: the sweep of .claude.  One call of cleanup_stale_files       *)
(* (lines 206-245), alone or as part of the start of a check of main       *)
(* (lines 604-611), in a .claude directory that holds state files of two   *)
(* sessions and a cache file, in either layout, of several ages.  The      *)
(* removal of one file may raise OSError.                                  *)
(***************************************************************************)
\* the state file of a session in the subdirectory layout and in the flat one
SubStateOf == ("A" :> "local-memory-state/A") @@ ("B" :> "local-memory-state/B")
FlatStateOf == ("A" :> "local-memory-state-A") @@ ("B" :> "local-memory-state-B")

\* line 212: max_age_days * 86400 seconds, here in minutes
MaxAge == MaxAgeDays * MinutesPerDay

\* the clock of the sweep, and the times of last write of the files: older
\* than the age by one minute, exactly of the age, and just written
SweepNow == MaxAge + SweepSlack
SweepTimes == {0, SweepSlack, SweepNow}

\* the states a file of the sweep may hold: a session that was never given a
\* line, and a session with a cursor and a suggested directory
SweepStates ==
    { default_state,
      [default_state EXCEPT !.last_processed_line = 2,
                            !.suggested_directories = { <<"src">> }] }

\* cleanup_stale_files with the age test applied to the flat-layout files too
CleanupByAgeOnly(files, clock, failed) ==
    [ e \in DOMAIN files |->
        IF e = failed \/ ~Exists(files[e]) THEN files[e]
        ELSE IF clock - files[e].mtime > MaxAge
        THEN MissingFile ELSE files[e] ]

\* lines 206-245.  failed is the file whose os.remove raises OSError
\* (lines 226-227 and 242-243; "-" when none does); a .claude that is not a
\* directory (lines 209-210) and a subdirectory that is not one (lines
\* 218-219) hold no file
CleanupStaleDir(files, clock, failed) ==
    [ e \in DOMAIN files |->
        IF e = failed \/ ~Exists(files[e]) THEN files[e]
        ELSE IF e \in SubEntries
        THEN IF clock - files[e].mtime > MaxAge      \* lines 216-227
             THEN MissingFile ELSE files[e]
        ELSE MissingFile ]                           \* lines 232-243

\* lines 604-611 of main: the state path of the session (with the migration
\* of its flat file), the load, and the sweep when the cursor is 0
SweepOfCheck(d, s, makedirs, rename, readable, failed) ==
    LET m == get_session_state_path(
                 [NoMig EXCEPT !.transcript_path = s,
                               !.old = d.files[FlatStateOf[s]],
                               !.new = d.files[SubStateOf[s]],
                               !.state_dir = \E e \in SubEntries : Exists(d.files[e])],
                 makedirs, rename)
        files1 == [d.files EXCEPT ![FlatStateOf[s]] = m.old,
                                  ![SubStateOf[s]] = m.new]
        session_state == load_session_state(files1[SubStateOf[s]], readable)
    IN IF m.exit = "raised"
       THEN [d EXCEPT !.op = "check", !.session = s, !.before = d.files]
       ELSE IF session_state.last_processed_line = 0
       THEN [d EXCEPT !.op = "check", !.session = s, !.before = d.files,
                      !.failed = failed, !.swept = TRUE,
                      !.files = CleanupStaleDir(files1, d.clock, failed)]
       ELSE [d EXCEPT !.op = "check", !.session = s, !.before = d.files,
                      !.files = files1]

SubFiles ==
    {MissingFile} \cup { StateFile(st, t) : st \in SweepStates, t \in SweepTimes }

FlatFiles ==
    {MissingFile} \cup { StateFile(st, SweepNow) : st \in SweepStates }

CacheFiles ==
    {MissingFile} \cup { StateFile(default_state, t) : t \in SweepTimes }

InitSweep ==
    /\ MainIdle
    /\ PureIdle
    /\ MigIdle
    /\ IncrIdle
    /\ LoadIdle
    /\ CacheIdle
    /\ MdIdle
    /\ \E f \in [SweepEntries -> SubFiles \cup CacheFiles] :
          /\ \A s \in Sessions : f[SubStateOf[s]] \in SubFiles
          /\ \A s \in Sessions : f[FlatStateOf[s]] \in FlatFiles
          /\ f["local-memory-cache/A"] \in CacheFiles
          /\ f["local-memory-cache-A"] \in CacheFiles
          /\ sw = [NoSweep EXCEPT !.files = f, !.before = f, !.clock = SweepNow]

\* cleanup_stale_files is called on the directory
SweepCall ==
    /\ sw.op = "-"
    /\ \E failed \in SweepEntries \cup {"-"} :
          sw' = [sw EXCEPT !.op = "cleanup", !.failed = failed, !.swept = TRUE,
                           !.files = CleanupStaleDir(sw.files, sw.clock, failed)]
    /\ UNCHANGED <<log, file, now, out, hist, judge_in, judge_out, group_in,
                   group_out, run, lock, procs, lk, scan_in, scan_out, mig, incr, ld, sc, mw>>

\* main is run for session s and reaches line 611
SweepCheck ==
    /\ sw.op = "-"
    /\ \E s \in Sessions, makedirs \in OsResults, rename \in OsResults,
          readable \in BOOLEAN, failed \in SweepEntries \cup {"-"} :
          sw' = SweepOfCheck(sw, s, makedirs, rename, readable, failed)
    /\ UNCHANGED <<log, file, now, out, hist, judge_in, judge_out, group_in,
                   group_out, run, lock, procs, lk, scan_in, scan_out, mig, incr, ld, sc, mw>>

NextSweep == SweepCall \/ SweepCheck

SpecSweep == InitSweep /\ [][NextSweep]_vars

(***************************************************************************)
(* SpecIncr: the checks of one session over a transcript that only grows,  *)
(* with the lines each check tests for signals (phase 1 of scan_transcript, *)
(* lines 298-329) kept as a history.  The read may stop early and the save *)
(* may fail.                                                               *)
(***************************************************************************)
\* a line with the output of a test run that passed
TestLine == Line({"test"}, FALSE, "none", << >>)

IncrAlphabet == {EditLine, CommitLine, TestLine, QuietLine}

\* lines 298-299: the line numbers on which a scan that reads readN lines
\* with the cache cached runs phase 1
TestedLines(cached, readN) ==
    { line_num \in 0..(readN - 1) :
        line_num >= ScanStart(0, cached).completion_start_line }

InitIncr ==
    /\ MainIdle
    /\ PureIdle
    /\ MigIdle
    /\ SweepIdle
    /\ LoadIdle
    /\ CacheIdle
    /\ MdIdle
    /\ incr = NoIncr

\* the assistant appends a line to the transcript
IncrAppend(line, max_lines) ==
    /\ Len(incr.lines) < max_lines
    /\ incr' = [incr EXCEPT !.lines = Append(@, line), !.full_read = FALSE,
                            !.settled = @ /\ ~line.edit,
                            !.settled_before = FALSE,
                            !.edit_appended = line.edit,
                            !.after_edit = FALSE]
    /\ UNCHANGED <<log, file, now, out, hist, judge_in, judge_out, group_in,
                   group_out, run, lock, procs, lk, scan_in, scan_out, mig, sw, ld, sc, mw>>

\* main is run and passes the entry guards (lines 604-750)
\* lines 331-333 and 640-692: the lines with file-change events in the
\* extraction range of a check judged complete
ExtractedLines(session_state, d, lines) ==
    IF NotComplete(d.completion) THEN {}
    ELSE { line_num \in session_state.last_processed_line
                           ..(d.state.last_processed_line - 1) :
             lines[line_num + 1].tool = "ok" }

IncrCheck(readN, save_result) ==
    /\ incr.checks < MaxIncrChecks
    /\ readN \in 0..Len(incr.lines)
    /\ \E session_state \in {load_session_state(incr.file, TRUE)} :
       \E d \in {MainDecide(session_state, incr.lines, readN, DEFAULT_THRESHOLD,
                    DEFAULT_COOLDOWN_MINUTES, DEFAULT_EXCLUDED_DIRS, 0)} :
       \E scanned \in {TestedLines(session_state.completion_cache, readN)} :
          incr' = [incr EXCEPT
                     !.file = save_session_state(@, d.state, save_result, 0),
                     !.checks = @ + 1,
                     !.tested = @ \cup scanned,
                     !.scanned = scanned,
                     !.retested = scanned \cap incr.tested # {},
                     !.full_read = readN = Len(incr.lines),
                     !.saved = save_result = "ok",
                     !.complete = ~NotComplete(d.completion),
                     !.settled = @ \/ ~NotComplete(d.completion),
                     !.settled_before = incr.settled,
                     !.edit_appended = FALSE,
                     !.after_edit = incr.edit_appended,
                     !.clean = @ /\ readN = Len(incr.lines) /\ save_result = "ok",
                     !.grouped = @ \cup ExtractedLines(session_state, d, incr.lines),
                     !.regrouped = @ \/ (ExtractedLines(session_state, d, incr.lines)
                                            \cap incr.grouped # {})]
    /\ UNCHANGED <<log, file, now, out, hist, judge_in, judge_out, group_in,
                   group_out, run, lock, procs, lk, scan_in, scan_out, mig, sw, ld, sc, mw>>

NextIncr ==
    \/ \E line \in IncrAlphabet : IncrAppend(line, MaxIncrLines)
    \/ \E readN \in ReadStops(Len(incr.lines)), sr \in SaveResults :
          IncrCheck(readN, sr)

SpecIncr == InitIncr /\ [][NextIncr]_vars

(***************************************************************************)
(* SpecQuiet: the checks of a session that has edited and committed, while *)
(* lines with and without an activity marker, and lines on which the       *)
(* extraction raises, are appended.                                        *)
(***************************************************************************)
MaxQuietLines == 6   \* lines of the transcript

InitQuiet ==
    /\ MainIdle
    /\ PureIdle
    /\ MigIdle
    /\ SweepIdle
    /\ LoadIdle
    /\ CacheIdle
    /\ MdIdle
    /\ incr = [NoIncr EXCEPT !.lines = <<EditLine, CommitLine>>]

NextQuiet ==
    \/ \E line \in {EditLine, QuietLine, NullDataLine} :
          IncrAppend(line, MaxQuietLines)
    \/ \E readN \in ReadStops(Len(incr.lines)), sr \in SaveResults :
          IncrCheck(readN, sr)

SpecQuiet == InitQuiet /\ [][NextQuiet]_vars

(***************************************************************************)
(* SpecLoad: load_session_state (lines 111-149) on the text of a state     *)
(* file.  The text is missing, cannot be read, is not JSON, is a JSON      *)
(* value that is not an object, or is an object with some of the keys of   *)
(* a state, whose completion_cache, if any, is not an object or is an      *)
(* object with some of the keys of a cache.                                *)
(***************************************************************************)
StateKeys == DOMAIN default_state
CacheKeys == DOMAIN default_completion_cache

\* the values a state file written by an earlier check holds
StoredCache ==
    [ last_scanned_line |-> 2,
      has_commit |-> TRUE, has_test_success |-> TRUE,
      has_build_success |-> TRUE, has_task_complete |-> TRUE,
      has_completion_phrase |-> TRUE,
      last_edit_index |-> 1 ]

StoredState ==
    [ last_processed_line |-> 2,
      suggested_directories |-> { <<"src">> },
      last_run_time |-> 0,
      generation_times |-> (<<"src">> :> 0),
      completion_cache |-> [dict |-> TRUE, value |-> StoredCache] ]

Restrict(f, keys) == [k \in keys |-> f[k]]

\* the values of the key completion_cache: null, or an object with some of
\* the keys of a cache
StoredCaches ==
    { [dict |-> FALSE, value |-> << >>] } \cup
    { [dict |-> TRUE, value |-> Restrict(StoredCache, keys)] :
        keys \in SUBSET CacheKeys }

\* the JSON objects: some keys of a state, with or without completion_cache
StoredObjects ==
    { Restrict(StoredState, keys) : keys \in SUBSET (StateKeys \ {"completion_cache"}) }
    \cup
    { [k \in keys \cup {"completion_cache"} |->
          IF k = "completion_cache" THEN cc ELSE StoredState[k]] :
        keys \in SUBSET (StateKeys \ {"completion_cache"}), cc \in StoredCaches }

LoadContents ==
    { [kind |-> k] : k \in {"missing", "unreadable", "notjson", "nonobject"} }
    \cup { [kind |-> "object", obj |-> o] : o \in StoredObjects }

\* a loader that takes the stored completion_cache as it is
FillCacheKeysNot(cc) == cc

\* lines 141-144: the missing keys of the cache get their default
FillCacheKeys(cc) ==
    [ k \in CacheKeys |->
        IF k \in DOMAIN cc THEN cc[k] ELSE default_completion_cache[k] ]

\* lines 111-149.  A file that cannot be opened or parsed, and a JSON value
\* on which the key assignments raise TypeError, end in the except clause
\* (lines 148-149)
load_session_state_keys(content) ==
    IF content.kind # "object" THEN default_state
    ELSE LET obj == content.obj
             state == [ k \in StateKeys |->                  \* lines 137-139
                          IF k \in DOMAIN obj THEN obj[k]
                          ELSE IF k = "completion_cache"
                          THEN [dict |-> TRUE, value |-> default_completion_cache]
                          ELSE default_state[k] ]
         IN [ state EXCEPT !["completion_cache"] =          \* lines 141-146
                IF @.dict THEN FillCacheKeys(@.value)
                ELSE default_completion_cache ]

InitLoad ==
    /\ MainIdle
    /\ PureIdle
    /\ MigIdle
    /\ SweepIdle
    /\ IncrIdle
    /\ CacheIdle
    /\ MdIdle
    /\ ld \in [ content : LoadContents, called : {FALSE}, result : {default_state} ]

LoadCall ==
    /\ ~ld.called
    /\ ld' = [ld EXCEPT !.called = TRUE,
                        !.result = load_session_state_keys(ld.content)]
    /\ UNCHANGED <<log, file, now, out, hist, judge_in, judge_out, group_in,
                   group_out, run, lock, procs, lk, scan_in, scan_out, mig,
                   sw, incr, sc, mw>>

SpecLoad == InitLoad /\ [][LoadCall]_vars

(***************************************************************************)
(* SpecCache: the summary cache of one directory (context_builder.py,      *)
(* lines 600-643).  old is the cache file of the flat layout               *)
(* (.claude/local-memory-cache-<hash>.json), new the one of the layout in  *)
(* use (.claude/local-memory-cache/<hash>.json), dir the state of the      *)
(* directory .claude/local-memory-cache: absent, present, or blocked (a    *)
(* file stands in its place, so that os.makedirs raises).                  *)
(***************************************************************************)
CacheDirectory == "src"            \* the directory of the calls
CacheDirectories == {"src", "lib"} \* the directory fields of the caches

NoSummaries == [f \in {} |-> 0]

CacheSummaries ==
    { NoSummaries,
      ("app.ts" :> [mtime |-> 1, size |-> 100, summary |-> "test"]),
      ("index.ts" :> [mtime |-> 99, size |-> 50, summary |-> "entry point"]) }

Caches == [ directory : CacheDirectories, summaries : CacheSummaries ]

\* lines 621, 629, 631: the cache returned when nothing can be loaded
EmptyCache(directory) == [directory |-> directory, summaries |-> NoSummaries]

CacheExists(f) == f.kind # "missing"

\* the text json.dump writes for a cache, and the text left by a dump that
\* raised after the file was truncated
json_dump(cache) == [kind |-> "object", obj |-> cache]
TornText == [kind |-> "notjson"]

CacheTexts ==
    { [kind |-> k] : k \in {"missing", "notjson", "nonobject"} }
    \cup { json_dump(c) : c \in Caches }

\* lines 600-615: the path of the cache, after the migration of the flat
\* file.  os.makedirs (line 609) is outside the try of line 610
_get_cache_path(files) ==
    IF CacheExists(files.old) /\ ~CacheExists(files.new)
    THEN IF files.dir = "blocked"
         THEN [files |-> files, raised |-> TRUE]
         ELSE [files |-> [dir |-> "present", old |-> [kind |-> "missing"],
                          new |-> files.old],
               raised |-> FALSE]
    ELSE [files |-> files, raised |-> FALSE]

\* lines 618-631
_load_summary_cache(directory, files, readable) ==
    LET path == _get_cache_path(files)
        f == path.files.new
        empty == [files |-> path.files, raised |-> FALSE,
                  cache |-> EmptyCache(directory)]
    IN IF path.raised THEN [empty EXCEPT !.raised = TRUE]
       ELSE IF ~CacheExists(f) THEN empty                    \* lines 620-621
       ELSE IF ~readable \/ f.kind # "object" THEN empty     \* lines 630-631
       ELSE IF f.obj.directory # directory THEN empty        \* lines 626-627
       ELSE [empty EXCEPT !.cache = f.obj]

\* lines 634-643.  write is the outcome of the guarded block: "ok", "open"
\* (the lock file or the cache file cannot be opened) or "torn" (json.dump
\* raises after the file was truncated); every error of lines 637-641 is
\* swallowed (lines 642-643)
_save_summary_cache(directory, files, cache, write) ==
    LET path == _get_cache_path(files)
        made == IF path.files.dir = "absent"
                THEN [path.files EXCEPT !.dir = "present"] ELSE path.files
    IN IF path.raised THEN [files |-> files, raised |-> TRUE]
       ELSE IF made.dir = "blocked" \/ write = "open"
       THEN [files |-> made, raised |-> FALSE]
       ELSE IF write = "torn"
       THEN [files |-> [made EXCEPT !.new = TornText], raised |-> FALSE]
       ELSE [files |-> [made EXCEPT !.new = json_dump(cache)], raised |-> FALSE]

CacheFilesOf(c) == [dir |-> c.dir, old |-> c.old, new |-> c.new]

\* the cache directory holds a file only when it is present
InitCache ==
    /\ MainIdle
    /\ PureIdle
    /\ MigIdle
    /\ SweepIdle
    /\ IncrIdle
    /\ LoadIdle
    /\ MdIdle
    /\ \E dir \in {"absent", "present", "blocked"},
          old \in {[kind |-> "missing"]} \cup { json_dump(c) : c \in Caches },
          new \in CacheTexts :
          /\ CacheExists(new) => dir = "present"
          /\ sc = [NoCache EXCEPT !.dir = dir, !.old = old, !.new = new]

CacheSave(cache, write) ==
    /\ sc.pc = "idle"
    /\ \E r \in { _save_summary_cache(CacheDirectory, CacheFilesOf(sc), cache, write) } :
          sc' = [sc EXCEPT !.pc = "saved", !.c = cache,
                           !.dir = r.files.dir, !.old = r.files.old,
                           !.new = r.files.new, !.save_raised = r.raised]
    /\ UNCHANGED <<log, file, now, out, hist, judge_in, judge_out, group_in,
                   group_out, run, lock, procs, lk, scan_in, scan_out, mig,
                   sw, incr, ld, mw>>

CacheLoad(readable) ==
    /\ sc.pc = "saved"
    /\ \E r \in { _load_summary_cache(CacheDirectory, CacheFilesOf(sc), readable) } :
          sc' = [sc EXCEPT !.pc = "loaded", !.loaded = r.cache,
                           !.dir = r.files.dir, !.old = r.files.old,
                           !.new = r.files.new, !.load_raised = r.raised]
    /\ UNCHANGED <<log, file, now, out, hist, judge_in, judge_out, group_in,
                   group_out, run, lock, procs, lk, scan_in, scan_out, mig,
                   sw, incr, ld, mw>>

NextCache ==
    \/ \E cache \in Caches, write \in {"ok", "open", "torn"} : CacheSave(cache, write)
    \/ \E readable \in BOOLEAN : CacheLoad(readable)

SpecCache == InitCache /\ [][NextCache]_vars

(***************************************************************************)
(* SpecMd: the checks of one session of the md-watch stop hook             *)
(* (md-to-skill/hooks/md-watch_stop.py).  A line of the transcript is the  *)
(* sequence of the file_path values of its Write items, or a line on       *)
(* which the extraction raises (its data is null, or it is a number).      *)
(* The session has no state file of the flat layout.                       *)
(***************************************************************************)
MaxMdLines == 3    \* lines of the transcript
MaxMdChecks == 3   \* checks of the session

MdDocs == {"docs/a.md", "docs/b.md"}

MdLine(writes) == [writes |-> writes, raises |-> FALSE]
MdRaisingLine == [writes |-> << >>, raises |-> TRUE]

MdAlphabet ==
    { MdLine(<<"docs/a.md">>),
      MdLine(<<"/proj/docs/a.md", "src/a.py">>),
      MdLine(<<"docs/b.md", "README.md", "skills/s.md">>),
      MdRaisingLine }

\* lines 205-206: the path ends with .md
EndsWithMd(file_path) == file_path # "src/a.py"

\* lines 209-214: the path relative to cwd (/proj)
MdNormalize(file_path) ==
    IF file_path = "/proj/docs/a.md" THEN "docs/a.md" ELSE file_path

\* lines 184-219: the Write items of one line, in order, without the paths
\* seen before
RECURSIVE MdExtractItems(_, _, _)
MdExtractItems(writes, i, md_paths) ==
    IF i > Len(writes) THEN md_paths
    ELSE LET file_path == MdNormalize(writes[i])
         IN MdExtractItems(writes, i + 1,
                IF EndsWithMd(writes[i]) /\ file_path \notin Range(md_paths)
                THEN Append(md_paths, file_path) ELSE md_paths)

\* lines 149-224, from line line_num on.  readN is the number of lines the
\* file iteration yields before it raises; an exception ends the loop and
\* is swallowed (lines 221-222)
RECURSIVE MdExtractLoop(_, _, _, _)
MdExtractLoop(lines, readN, line_num, acc) ==
    IF line_num >= readN THEN acc
    ELSE IF lines[line_num + 1].raises
    THEN [acc EXCEPT !.last_line = line_num + 1]
    ELSE MdExtractLoop(lines, readN, line_num + 1,
            [ md_paths |-> MdExtractItems(lines[line_num + 1].writes, 1, acc.md_paths),
              last_line |-> line_num + 1 ])

extract_md_file_paths(lines, readN, start_line) ==
    MdExtractLoop(lines, readN, start_line,
                  [md_paths |-> << >>, last_line |-> start_line])

\* lines 226-238, with the default excludePatterns
is_excluded_file(file_path) == file_path = "README.md"

\* lines 241-259
is_inside_skill_directory(file_path) == file_path = "skills/s.md"

\* lines 105-124
md_load_session_state(f) ==
    IF f.kind = "state" THEN f.st ELSE md_default_state

\* lines 127-135: every error is swallowed; "fail" leaves the file as it
\* is (the directory or the file cannot be opened), "torn" leaves a text
\* that is not JSON
md_save_session_state(f, state, result) ==
    IF result = "ok" THEN [kind |-> "state", st |-> state, stale |-> FALSE]
    ELSE IF result = "torn" THEN [kind |-> "corrupt", st |-> md_default_state, stale |-> FALSE]
    ELSE f

\* lines 473-487: a state file not written for more than 48 hours is
\* removed, that of the session of this check included
md_cleanup_stale_files(f) ==
    IF f.kind # "missing" /\ f.stale
    THEN [kind |-> "missing", st |-> md_default_state, stale |-> FALSE]
    ELSE f

\* lines 573-608: the candidates among md_paths; good are the paths that
\* pass check_file_quality
RECURSIVE MdCandidates(_, _, _, _)
MdCandidates(md_paths, i, suggested_files, good) ==
    IF i > Len(md_paths) THEN << >>
    ELSE LET file_path == md_paths[i]
             rest == MdCandidates(md_paths, i + 1, suggested_files, good)
         IN IF \/ is_excluded_file(file_path)
               \/ is_inside_skill_directory(file_path)
               \/ file_path \in Range(suggested_files)
               \/ file_path \notin good
            THEN rest ELSE <<file_path>> \o rest

\* a record that forgets the candidates
MdRecordNothing(suggested_files, candidates) == suggested_files

\* lines 652-654
MdRecordSuggested(suggested_files, candidates) == suggested_files \o candidates

\* main, lines 535-685, of a check that is not guarded
md_main(f, lines, readN, good, save_result) ==
    LET swept == md_cleanup_stale_files(f)                        \* line 535
        session_state == md_load_session_state(swept)            \* line 547
        start_line == session_state.last_processed_line
        ex == extract_md_file_paths(lines, readN, start_line)    \* lines 551-553
        candidates == MdCandidates(ex.md_paths, 1, session_state.suggested_files, good)
        state == [ last_processed_line |-> ex.last_line,         \* lines 558, 611
                   suggested_files |->
                       MdRecordSuggested(session_state.suggested_files, candidates) ]
    IN [ file |-> md_save_session_state(swept, state, save_result),
         removed |-> swept # f,
         state |-> state,
         start_line |-> start_line,
         last_line |-> ex.last_line,
         listed |-> candidates,
         skipped |-> Range(ex.md_paths) \cap Range(session_state.suggested_files) ]

InitMd ==
    /\ MainIdle
    /\ PureIdle
    /\ MigIdle
    /\ SweepIdle
    /\ IncrIdle
    /\ LoadIdle
    /\ CacheIdle
    /\ mw = NoMd

\* the assistant appends a line to the transcript
MdAppend(line) ==
    /\ Len(mw.lines) < MaxMdLines
    /\ mw' = [mw EXCEPT !.lines = Append(@, line)]
    /\ UNCHANGED <<log, file, now, out, hist, judge_in, judge_out, group_in,
                   group_out, run, lock, procs, lk, scan_in, scan_out, mig,
                   sw, incr, ld, sc>>

\* more than 48 hours pass without a check
MdPause ==
    /\ mw.file.kind # "missing"
    /\ ~mw.file.stale
    /\ mw' = [mw EXCEPT !.file.stale = TRUE]
    /\ UNCHANGED <<log, file, now, out, hist, judge_in, judge_out, group_in,
                   group_out, run, lock, procs, lk, scan_in, scan_out, mig,
                   sw, incr, ld, sc>>

\* lines 504-513: a check with stop_hook_active, or without transcript_path
MdGuarded ==
    /\ mw.checks < MaxMdChecks
    /\ mw' = [mw EXCEPT !.checks = @ + 1,
                        !.out = [NoMd.out EXCEPT !.ran = TRUE]]
    /\ UNCHANGED <<log, file, now, out, hist, judge_in, judge_out, group_in,
                   group_out, run, lock, procs, lk, scan_in, scan_out, mig,
                   sw, incr, ld, sc>>

\* a check that reaches the extraction
MdCheck(readN, good, save_result) ==
    /\ mw.checks < MaxMdChecks
    /\ \E r \in { md_main(mw.file, mw.lines, readN, good, save_result) } :
          mw' = [mw EXCEPT
                   !.checks = @ + 1,
                   !.file = r.file,
                   !.listed = @ \cup Range(r.listed),
                   !.dup = @ \/ (Range(r.listed) \cap mw.listed # {}),
                   !.lost = @ \/ r.removed \/ r.file.kind # "state"
                              \/ r.file.st # r.state,
                   !.out = [ran |-> TRUE, reached |-> TRUE,
                             start_line |-> r.start_line,
                             last_line |-> r.last_line,
                             listed |-> r.listed, skipped |-> r.skipped,
                             save_result |-> save_result] ]
    /\ UNCHANGED <<log, file, now, out, hist, judge_in, judge_out, group_in,
                   group_out, run, lock, procs, lk, scan_in, scan_out, mig,
                   sw, incr, ld, sc>>

NextMd ==
    \/ \E line \in MdAlphabet : MdAppend(line)
    \/ MdPause
    \/ MdGuarded
    \/ \E readN \in 0..Len(mw.lines), good \in SUBSET MdDocs,
          save_result \in {"ok", "fail", "torn"} : MdCheck(readN, good, save_result)

SpecMd == InitMd /\ [][NextMd]_vars

\* C23 - a notification is emitted only by a check in which the judge
\* returned complete: a check judged not complete prints no decision,
\* whatever directories the new lines touched.
C23_NotifyOnlyWhenComplete ==
    (out.ran /\ ~out.guarded /\ ~out.complete) =>
        (out.decision = "none" /\ out.dirs = {})

\* a check judged not complete of a transcript read to its end that holds
\* edits of two files of src, in a session that was never notified
C23_Witness ==
    /\ out.ran /\ ~out.guarded /\ ~out.complete /\ out.full_read
    /\ out.decision = "none"
    /\ \E i \in DOMAIN log[out.session] : log[out.session][i] = EditLine
    /\ DOMAIN hist[out.session].notified_at = {}

\* C24 - the entry guards have no effect on state: a run of main stopped by
\* stop_hook_active, by an empty transcript_path or by autoGenerate = false
\* prints no decision and leaves every persisted session state as it was.
C24_GuardsLeaveState ==
    [][ (out'.ran /\ out'.guarded) =>
            (file' = file /\ out'.decision = "none" /\ out'.dirs = {}) ]_vars

\* a run stopped at a guard in a session whose state file holds a cursor and
\* a suggested directory
C24_Witness ==
    /\ out.ran /\ out.guarded
    /\ file[out.session].kind = "state"
    /\ file[out.session].st.last_processed_line > 0
    /\ file[out.session].st.suggested_directories # {}

\* main is about to print a decision (line 749)
AboutToNotify == run.pc = "print" /\ run.dirs # {}

\* every candidate is in suggested_directories and stamped with the time of
\* the check in the state main holds
RecordedInState ==
    /\ run.dirs \subseteq run.state.suggested_directories
    /\ \A d \in run.dirs :
          /\ d \in DOMAIN run.state.generation_times
          /\ run.state.generation_times[d] = now

\* save_session_state has been called and has returned: with the file
\* written, after an error in the write, or after an error of os.makedirs
SaveAttempted == run.saved \/ run.thrown \/ ~run.called

\* the state file of the session holds the candidates, so that the next
\* check of the session loads them and skips them
PersistedForNextCheck ==
    run.dirs \subseteq
        load_session_state(file[run.session], TRUE).suggested_directories

MdPersisted ==
    /\ mw.file.kind = "state"
    /\ mw.file.st.last_processed_line = mw.out.last_line

C32_CacheRoundTrip ==
    sc.pc = "loaded" =>
        /\ ~sc.load_raised
        /\ sc.c.directory = CacheDirectory => sc.loaded = sc.c
        /\ \/ sc.new.kind # "object"
           \/ sc.new.obj.directory # CacheDirectory
           => sc.loaded = EmptyCache(CacheDirectory)

\* the load returns in every case
CacheLoadReturns == sc.pc = "loaded" => ~sc.load_raised

\* the round trip of a save whose write succeeded
CacheRoundTripOfWrittenCache ==
    /\ sc.pc = "loaded"
    /\ ~sc.save_raised
    /\ sc.new = json_dump(sc.c)
    /\ sc.c.directory = CacheDirectory
    => sc.loaded = sc.c \/ sc.loaded = EmptyCache(CacheDirectory)

(***************************************************************************)
(* Properties of the load of the state (SpecLoad).                         *)
(***************************************************************************)
\* the file holds a state written before the completion cache existed
LegacyState ==
    /\ ld.content.kind = "object"
    /\ "completion_cache" \notin DOMAIN ld.content.obj
    /\ "last_processed_line" \in DOMAIN ld.content.obj

\* C31 - loading never fails and always yields a complete state: the default
\* state when the file is missing, unreadable or not valid JSON, otherwise a
\* state with every required key and every key of the completion cache; a
\* legacy state without completion_cache gets the default cache, so that
\* signal detection restarts at line 0 while path extraction resumes at the
\* stored last_processed_line.
C31_LoadYieldsCompleteState ==
    ld.called =>
        /\ ld.content.kind \in {"missing", "unreadable", "notjson"}
              => ld.result = default_state
        /\ DOMAIN ld.result = StateKeys
        /\ DOMAIN ld.result.completion_cache = CacheKeys
        /\ ld.content.kind = "object" =>
              \A k \in DOMAIN ld.content.obj \ {"completion_cache"} :
                  ld.result[k] = ld.content.obj[k]
        /\ LegacyState =>
              LET start == ScanStart(ld.result.last_processed_line,
                                     ld.result.completion_cache)
              IN /\ ld.result.completion_cache = default_completion_cache
                 /\ start.completion_start_line = 0
                 /\ start.last_line = StoredState.last_processed_line

\* a legacy state loaded with its cursor, its suggested directories and the
\* default cache
C31_Witness ==
    /\ ld.called
    /\ LegacyState
    /\ ld.result.last_processed_line = StoredState.last_processed_line
    /\ ld.result.completion_cache = default_completion_cache
    /\ ld.result.suggested_directories = { <<"src">> }

(***************************************************************************)
(* Properties of the incremental scan (SpecIncr).                          *)
(***************************************************************************)
\* C37 - completion is stable under quiet growth: if a check judges the
\* session complete and only lines without an activity marker are appended
\* afterwards, every later check that reads the transcript fully also judges
\* it complete; appending a line with an activity marker makes the next
\* check judge it not complete.
C37_StableUnderQuietGrowth ==
    /\ (incr.full_read /\ incr.settled_before) => incr.complete
    /\ incr.after_edit => ~incr.complete

\* no line of the transcript makes the extraction raise
NoRaisingLine == \A i \in DOMAIN incr.lines : incr.lines[i].tool # "raise"

\* the same for sessions all of whose checks read the whole transcript and
\* saved the state, on transcripts without a raising line
StableWhenReadsAndSavesSucceed ==
    (incr.clean /\ NoRaisingLine) => C37_StableUnderQuietGrowth

\* C39 - each change is aggregated at most once: over an append-only
\* transcript with successful reads and saves, after a check judged complete
\* last_processed_line equals the number of lines, so that the file-change
\* events of a line are passed to group_files_by_directory in at most one
\* check judged complete.
C39_AggregatedOnce ==
    incr.clean =>
        /\ ~incr.regrouped
        /\ (incr.full_read /\ incr.complete) =>
              /\ incr.file.kind = "state"
              /\ incr.file.st.last_processed_line = Len(incr.lines)

\* the same for transcripts without a line on which the extraction raises
AggregatedOnceWithoutRaisingLine == NoRaisingLine => C39_AggregatedOnce

\* no line is extracted by two checks judged complete, raising lines or not
NeverRegroupedWhenClean == incr.clean => ~incr.regrouped

\* the completion cache of one scan of the whole transcript from line 0
\* with an empty cache
FullScanCache ==
    scan_transcript(incr.lines, Len(incr.lines), 0,
                    default_completion_cache).completion_cache

\* the largest index of a line with an activity marker, -1 when there is none
MaxEditIndex ==
    LET edits == { i \in DOMAIN incr.lines : incr.lines[i].edit }
    IN IF edits = {} THEN -1
       ELSE (CHOOSE i \in edits : \A j \in edits : j <= i) - 1

\* the five signal flags and last_edit_index of the persisted cache are
\* those of the full scan
CacheEqualsFullScan ==
    LET c == incr.file.st.completion_cache
    IN /\ incr.file.kind = "state"
       /\ c.has_commit = FullScanCache.has_commit
       /\ c.has_test_success = FullScanCache.has_test_success
       /\ c.has_build_success = FullScanCache.has_build_success
       /\ c.has_task_complete = FullScanCache.has_task_complete
       /\ c.has_completion_phrase = FullScanCache.has_completion_phrase
       /\ c.last_edit_index = FullScanCache.last_edit_index
       /\ c.last_edit_index = MaxEditIndex

\* the equality half of C30 on its own
IncrementalEqualsFull ==
    (incr.full_read /\ incr.saved) => CacheEqualsFullScan

\* C30 - incremental scan equals full scan: after any sequence of checks
\* that ends with a check that read the log to its end (and saved), the
\* signal flags and last_edit_index of the completion cache are those of one
\* scan from line 0 with an empty cache, last_edit_index being the largest
\* index of a line with an activity marker, and a check that reads the log
\* to its end tests no line for signals that an earlier check has tested.
C30_IncrementalEqualsFull ==
    (incr.full_read /\ incr.saved) =>
        (CacheEqualsFullScan /\ ~incr.retested)

(***************************************************************************)
(* Properties of the sweep (SpecSweep).                                    *)
(***************************************************************************)
\* the files cleanup_stale_files is to remove: the files of the
\* subdirectories older than the age, every file of the flat layout
ToRemove ==
    { e \in SweepEntries :
        /\ Exists(sw.before[e])
        /\ \/ e \in FlatEntries
           \/ sw.clock - sw.before[e].mtime > MaxAge }

C22_SweepSparesYoungState ==
    sw.op = "check" =>
        \A o \in Sessions \ {sw.session} :
            \A e \in {SubStateOf[o], FlatStateOf[o]} :
                (Exists(sw.before[e]) /\ sw.clock - sw.before[e].mtime < MaxAge)
                    => sw.files[e] = sw.before[e]

(***************************************************************************)
(* Properties of the migration of the state file (SpecMigrate).            *)
(***************************************************************************)
\* C20 - legacy migration: once get_session_state_path has returned, a
\* flat-layout file that existed alone is gone and the subdirectory file
\* holds its content unchanged; a subdirectory file that already existed is
\* left as it was; the returned path is .claude/local-memory-state/<hash>.json.
C20_LegacyMigration ==
    mig.exit = "returned" =>
        /\ (Exists(mig.before.old) /\ ~Exists(mig.before.new)) =>
               (~Exists(mig.old) /\ mig.new = mig.before.old)
        /\ Exists(mig.before.new) =>
               (mig.new = mig.before.new /\ mig.old = mig.before.old)
        /\ mig.path = << ".claude", "local-memory-state",
                         transcript_hash(mig.transcript_path), ".json" >>

Intact(s) == file[s].kind = "state" /\ file'[s].kind = "state"

\* C34 - cursor ordering: in every persisted state reachable from the
\* default state, last_processed_line is at most
\* completion_cache.last_scanned_line, also after checks in which the read
\* of the transcript failed.
C34_CursorOrdering ==
    \A s \in Sessions :
        file[s].kind = "state" =>
            file[s].st.last_processed_line
                <= file[s].st.completion_cache.last_scanned_line

\* C35 - in every session state reachable from the default state through
\* checks, each key of generation_times is a member of
\* suggested_directories; hence within one session the cooldown filter never
\* drops a directory that the already-suggested filter would not drop first.
C35_StampedAreSuggested ==
    /\ \A s \in Sessions :
          file[s].kind = "state" =>
              DOMAIN file[s].st.generation_times
                  \subseteq file[s].st.suggested_directories
    /\ out.ran => out.skipped_dirs = {}

\* a check finds, at the threshold and within the cooldown, a directory
\* notified before: the already-suggested filter drops it, the cooldown
\* filter drops nothing
C35_Witness ==
    /\ out.ran /\ out.complete /\ out.session = "A"
    /\ file["A"].kind = "state"
    /\ \E d \in out.skipped_already_suggested :
          /\ d \in DOMAIN file["A"].st.generation_times
          /\ is_claude_md_recent(d, DEFAULT_COOLDOWN_MINUTES, file["A"].st, now)
    /\ out.skipped_dirs = {}

\* one of the last three lines of the transcript carries an activity marker
EditInLastThree(lines) ==
    \E i \in DOMAIN lines : i > Len(lines) - 3 /\ lines[i].edit

\* a check that reads the whole transcript while one of its last three lines
\* carries an activity marker is not judged complete
NoCompleteWhileEditing ==
    [][ /\ log' = log
        /\ out'.ran /\ ~out'.guarded /\ out'.full_read
        /\ EditInLastThree(log[out'.session])
        => ~out'.complete ]_vars

\* C38 - a check judged not complete changes only completion_cache and
\* last_run_time: last_processed_line, suggested_directories and
\* generation_times of the persisted state are left as they were loaded, so
\* that the next check extracts the lines it read again.
C38_NotCompleteLeavesCursor ==
    [][ /\ log' = log
        /\ out'.ran /\ ~out'.guarded /\ ~out'.complete
        /\ file'[out'.session].kind = "state"
        => LET before == load_session_state(file[out'.session], TRUE)
               after == file'[out'.session].st
           IN /\ after.last_processed_line = before.last_processed_line
              /\ after.suggested_directories = before.suggested_directories
              /\ after.generation_times = before.generation_times
              /\ out'.dirs = {} ]_vars

\* a check judged not complete after an earlier check notified: the lines
\* appended since are scanned for signals and left for the next extraction
C38_Witness ==
    /\ out.ran /\ ~out.guarded /\ ~out.complete
    /\ out.full_read /\ out.saved
    /\ file[out.session].kind = "state"
    /\ file[out.session].st.suggested_directories # {}
    /\ file[out.session].st.last_processed_line > 0
    /\ file[out.session].st.last_processed_line < Len(log[out.session])
    /\ file[out.session].st.completion_cache.last_scanned_line
           = Len(log[out.session])

\* the ordering after the checks that read the whole transcript
CursorOrderingAfterFullRead ==
    /\ out.ran /\ out.full_read /\ ~out.guarded
    /\ file[out.session].kind = "state"
    /\ out.saved
    => file[out.session].st.last_processed_line
           <= file[out.session].st.completion_cache.last_scanned_line

\* C4 - monotonic cursor: last_processed_line and
\* completion_cache.last_scanned_line in the state file never decrease from
\* one check to the next, whether the transcript is read to its end or not.
C4_MonotonicCursor ==
    [][ \A s \in Sessions : Intact(s) =>
          /\ file'[s].st.last_processed_line >= file[s].st.last_processed_line
          /\ file'[s].st.completion_cache.last_scanned_line
                >= file[s].st.completion_cache.last_scanned_line ]_vars

\* C5 - sticky signals: a signal flag that is true in the completion cache
\* of the state file is true in it after every later check.
C5_StickySignals ==
    [][ \A s \in Sessions : Intact(s) =>
          LET c == file[s].st.completion_cache
              c2 == file'[s].st.completion_cache
          IN /\ c.has_commit => c2.has_commit
             /\ c.has_test_success => c2.has_test_success
             /\ c.has_build_success => c2.has_build_success
             /\ c.has_task_complete => c2.has_task_complete
             /\ c.has_completion_phrase => c2.has_completion_phrase ]_vars

\* two state files that hold the same state but for last_run_time
SameButRunTime(f, g) ==
    /\ f.kind = g.kind
    /\ [f.st EXCEPT !.last_run_time = None] = [g.st EXCEPT !.last_run_time = None]

\* a run that passed the entry guards directly follows another of the same
\* session: no line was appended in between
SecondCheck ==
    /\ out.ran /\ ~out.guarded
    /\ out'.ran /\ ~out'.guarded
    /\ out'.session = out.session

\* C7 - idempotence of no-op scans: a check that directly follows a check of
\* the same session emits no candidates and leaves the state file as it was
\* but for last_run_time.  Stated for the checks where the first read the
\* transcript to its end and both wrote the state file.
C7_NoOpIdempotent ==
    [][ (SecondCheck /\ out.full_read /\ out.saved /\ out'.saved) =>
          /\ out'.dirs = {}
          /\ SameButRunTime(file[out.session], file'[out.session]) ]_vars

\* a run of main has passed the entry guards, read the transcript to its end
\* and written the state file
CheckedAndSaved ==
    /\ out'.ran /\ ~out'.guarded
    /\ out'.full_read /\ out'.saved

\* C16 - every check that reaches the scan persists the state, and the
\* persisted last_processed_line and completion_cache.last_scanned_line are
\* both advanced to the number of lines read, also when the session is
\* judged not complete.
C16_CursorsAdvanced ==
    [][ CheckedAndSaved =>
          LET s == out'.session IN
          /\ file'[s].kind = "state"
          /\ file'[s].st.completion_cache.last_scanned_line = Len(log[s])
          /\ file'[s].st.last_processed_line = Len(log[s]) ]_vars

\* C16 as amended - every check that reaches the scan persists the state;
\* completion_cache.last_scanned_line is advanced to the number of lines
\* read by every such check; last_processed_line is advanced to it by the
\* checks that judge the session complete, and is left as it was loaded by
\* the checks that judge it not complete.
C16_CacheAdvancedCursorWhenComplete ==
    [][ CheckedAndSaved =>
          LET s == out'.session IN
          /\ file'[s].kind = "state"
          /\ file'[s].st.completion_cache.last_scanned_line = Len(log[s])
          /\ file'[s].st.last_processed_line =
                IF out'.complete THEN Len(log[s])
                ELSE load_session_state(file[s], TRUE).last_processed_line ]_vars

\* a check has judged the session not complete and saved the state: the
\* cache is ahead of the cursor
C16_Witness ==
    /\ out.ran /\ ~out.guarded /\ out.full_read /\ out.saved
    /\ ~out.complete
    /\ file[out.session].kind = "state"
    /\ file[out.session].st.last_processed_line
          < file[out.session].st.completion_cache.last_scanned_line

\* C11 - state loss costs at most one extra cycle: however many saves or
\* loads of the state fail, a directory is notified at most once more after
\* its first notification, twice in all.
C11_OneExtraCycle ==
    \A s \in Sessions : \A d \in DOMAIN hist[s].times : hist[s].times[d] <= 2

(***************************************************************************)
(* Properties of two sessions of one project (SpecProject).                *)
(***************************************************************************)
\* the directories that session t notified less than the cooldown ago
RecentlyNotified(t) ==
    { d \in DOMAIN hist[t].notified_at :
        now' - hist[t].notified_at[d] < DEFAULT_COOLDOWN_MINUTES }

\* C2 - cooldown respected: no check notifies a directory that a check
\* notified less than cooldownMinutes before.
C2_CooldownRespected ==
    [][ out'.ran => \A t \in Sessions : out'.dirs \cap RecentlyNotified(t) = {} ]_vars

\* C3 - generation times are tracked per project: no check of a session
\* notifies a directory that a check of another session of the project
\* notified less than cooldownMinutes before.
C3_CooldownAcrossSessions ==
    [][ out'.ran => \A t \in Sessions \ {out'.session} :
                        out'.dirs \cap RecentlyNotified(t) = {} ]_vars

(***************************************************************************)
(* Properties of one run of main (SpecMain).                               *)
(***************************************************************************)
Running == run.pc \in {"acquire", "backoff", "write", "print"}

\* C10 - the check never fails or hangs its caller: whether the transcript
\* is readable or not, the state file missing or corrupt, the write failing,
\* the lock held by another process, a run of main that has started
\* terminates, and it exits with status 0.
C10_TerminatesWithZero ==
    /\ Running ~> (run.pc = "exited")
    /\ [](run.pc = "exited" => run.exit = 0)

\* main has exited after waiting for a lock that another process holds, and
\* after a write that failed
C10_Witness ==
    /\ run.pc = "exited" /\ run.exit = 0
    /\ run.timed_out /\ run.thrown
    /\ lock = "other"

Waiting == run.pc \in {"acquire", "backoff"}

\* C40 - error inside the guarded block: if the block guarded by file_lock
\* raises an OSError after the lock was acquired, file_lock releases the
\* lock, lets the error reach the caller unchanged, and neither retries the
\* acquisition nor reaches its yield point a second time.
C40_ErrorInGuardedBlock ==
    run.thrown =>
        /\ lock # "main"
        /\ run.pc # "acquire"
        /\ run.caught # "RuntimeError"

\* the block is entered once, whatever it raises
BodyEnteredOnce == run.thrown => run.entered = 1

\* C15 - bounded wait of file_lock: a caller of file_lock enters the guarded
\* block, also while another process holds the lock for ever; the save
\* finishes; and the block has been entered exactly once when the call is
\* over.
C15_BoundedWait ==
    /\ (Waiting /\ run.entered = 0) ~> (run.entered = 1)
    /\ (Waiting \/ run.pc = "write") ~> (run.pc = "print")
    /\ []((run.called /\ run.pc \in {"print", "exited"}) => run.entered = 1)

\* the caller is in the block, entered after the timeout, while the other
\* process holds the lock
C15_Witness ==
    /\ run.pc = "write" /\ run.entered = 1
    /\ run.timed_out /\ ~run.thrown
    /\ lock = "other"

(***************************************************************************)
(* Properties of two concurrent runs of main (SpecRace).                   *)
(***************************************************************************)
BothDone == \A p \in Procs : procs[p].pc = "done"

\* C12 - no duplicate notification under concurrency: no directory is in
\* the decision of both processes.
C12_NoConcurrentDuplicate ==
    \A p, q \in Procs :
        (p # q /\ procs[p].pc = "done" /\ procs[q].pc = "done")
            => procs[p].dirs \cap procs[q].dirs = {}

\* C13 - concurrent-safe read-modify-write: when both processes have
\* finished, every directory either of them added to suggested_directories
\* is in the state file.
C13_NoLostUpdate ==
    BothDone =>
        \A p \in Procs :
            procs[p].dirs \subseteq
                load_session_state(file["A"], TRUE).suggested_directories

(***************************************************************************)
(* Properties of file_lock (SpecLock).                                     *)
(***************************************************************************)
\* the callers that are inside the block and entered it by taking the lock
InsideByLock == { q \in LockProcs : lk.p[q].pc = "inside" /\ lk.p[q].by_lock }

\* C14 - mutual exclusion of file_lock: at most one of the callers that
\* entered the block by taking the lock is inside it.
C14_MutualExclusion == Cardinality(InsideByLock) <= 1

(***************************************************************************)
(* Properties of scan_transcript (SpecScan).                               *)
(***************************************************************************)
\* the paths of the file-change events of a line that lie in the project
ProjectPaths(line) ==
    IF line.tool # "ok" THEN {}
    ELSE { line.items[k].path.segs : k \in
             { k \in DOMAIN line.items :
                 /\ line.items[k].name \in _TARGET_TOOLS
                 /\ (~line.items[k].path.abs \/ line.items[k].path.under) } }

\* the lines in the extraction range that are not valid JSON or lack both
\* envelopes
MalformedAt ==
    { i \in DOMAIN scan_in.lines :
        /\ i - 1 >= scan_in.start_line
        /\ scan_in.lines[i].tool \in {"badjson", "noenv", "raise"} }

\* C17 - malformed lines are skipped, not fatal: with a malformed line in
\* the extraction range, the file-change events of the later lines are
\* extracted and last_line is the number of lines of the file.
C17_MalformedSkipped ==
    (scan_out.called /\ MalformedAt # {}) =>
        /\ scan_out.result.last_line = Len(scan_in.lines)
        /\ \A i \in MalformedAt : \A j \in DOMAIN scan_in.lines :
              j > i => ProjectPaths(scan_in.lines[j])
                          \subseteq Range(scan_out.result.file_paths)

\* the places of the extraction range where a tool of _TARGET_TOOLS names
\* the path p, numbered in the order of the transcript
Occurrences(p) ==
    { n \in 0..((Len(scan_in.lines) + 1) * ItemStride) :
        LET i == n \div ItemStride
            k == n % ItemStride
        IN /\ i \in DOMAIN scan_in.lines
           /\ i - 1 >= scan_in.start_line
           /\ scan_in.lines[i].tool = "ok"
           /\ k \in DOMAIN scan_in.lines[i].items
           /\ scan_in.lines[i].items[k].name \in _TARGET_TOOLS
           /\ scan_in.lines[i].items[k].path.segs = p }

FirstOccurrence(p) == CHOOSE n \in Occurrences(p) : \A m \in Occurrences(p) : n <= m

\* C28 - the extraction deduplicates within one pass: file_paths holds each
\* normalized path at most once, in the order of first occurrence among the
\* lines at or after start_line, and holds only targets of Edit, Write or
\* NotebookEdit.
C28_DedupInOrder ==
    scan_out.called =>
        LET file_paths == scan_out.result.file_paths
        IN /\ \A i, j \in DOMAIN file_paths :
                 i # j => file_paths[i] # file_paths[j]
           /\ \A i \in DOMAIN file_paths : Occurrences(file_paths[i]) # {}
           /\ \A i, j \in DOMAIN file_paths :
                 i < j => FirstOccurrence(file_paths[i])
                            < FirstOccurrence(file_paths[j])

\* a scan from a line after the first one that returns two paths, one of
\* them named twice in the range (as src/a.py and as /proj/src/a.py), and
\* that leaves out the file of a Read of the range
C28_Witness ==
    /\ scan_out.called
    /\ scan_in.start_line > 0
    /\ scan_out.result.file_paths = <<SrcA, SrcB>>
    /\ Cardinality(Occurrences(SrcA)) = 2
    /\ \E i \in DOMAIN scan_in.lines :
          i - 1 >= scan_in.start_line /\ scan_in.lines[i] = ReadAndEditLine
    /\ LibE \notin Range(scan_out.result.file_paths)

\* C18 - path normalizer: every path the extraction returns is the path of
\* an event in the project; an absolute path that is not under the project
\* root is never returned.
C18_OnlyProjectPaths ==
    scan_out.called =>
        Range(scan_out.result.file_paths) \subseteq
            UNION { ProjectPaths(scan_in.lines[i]) : i \in DOMAIN scan_in.lines }

====
